---- MODULE Spec2Model ----
(***************************************************************************)
(* Model of the ECUC parameter-definition converter (src/tree_gen.py):     *)
(* the ARXML reader, the tree builder, the multiplicity encoder and the    *)
(* JSON projections.                                                       *)
(*                                                                         *)
(* Texts are TLA+ strings; a character is a string of length 1.            *)
(* A JSON object (a Python dict) is a sequence of <<key, value>> pairs in  *)
(* insertion order; JSON values are tagged records so that values of       *)
(* different JSON types can be compared.                                   *)
(***************************************************************************)
EXTENDS Integers, Sequences, FiniteSets, TLC

(***************************************************************************)
(* Bounds of the model                                                     *)
(***************************************************************************)
\* longest multiplicity text drawn over MultChars
MaxTextLen == 2
\* most elements below the document element (root search)
MaxTop == 2
\* most child elements in one grouping of the root
MaxKids == 2

(***************************************************************************)
(* Python str operations                                                   *)
(***************************************************************************)
CharAt(s, i) == SubSeq(s, i, i)

\* the ASCII characters str.strip() and int() take for whitespace, in
\* code-point order: tab, newline, vertical tab, form feed, carriage return,
\* the separators 0x1C to 0x1F and the space.  Strings of the model are
\* ASCII: the spaces of Unicode beyond it, which Python strips too, cannot
\* be written in them
AsciiWhiteSpace == "\t\n\f\r "

WhiteSpace == {CharAt(AsciiWhiteSpace, i) : i \in 1..Len(AsciiWhiteSpace)}

\* the characters int() passes over around an ASCII text: tab, newline,
\* vertical tab, form feed, carriage return and the space, not the separators
\* 0x1C to 0x1F
IntWhiteSpace == {CharAt(AsciiWhiteSpace, i) : i \in 1..5} \cup {" "}

Digits == {"0", "1", "2", "3", "4", "5", "6", "7", "8", "9"}

RECURSIVE LStrip(_)
LStrip(s) ==
    IF Len(s) > 0 /\ CharAt(s, 1) \in WhiteSpace THEN LStrip(Tail(s)) ELSE s

RECURSIVE RStrip(_)
RStrip(s) ==
    IF Len(s) > 0 /\ CharAt(s, Len(s)) \in WhiteSpace
    THEN RStrip(SubSeq(s, 1, Len(s) - 1))
    ELSE s

\* str.strip()
Strip(s) == RStrip(LStrip(s))

\* positions at which sep occurs in s
Occurrences(s, sep) ==
    {i \in 1..(Len(s) - Len(sep) + 1) : SubSeq(s, i, i + Len(sep) - 1) = sep}

\* sub in s
Contains(s, sub) == Occurrences(s, sub) # {}

Min(S) == CHOOSE x \in S : \A y \in S : x <= y

\* str.split(sep): left to right, non-overlapping
RECURSIVE Split(_, _)
Split(s, sep) ==
    IF Occurrences(s, sep) = {}
    THEN <<s>>
    ELSE LET i == Min(Occurrences(s, sep))
         IN  <<SubSeq(s, 1, i - 1)>> \o Split(SubSeq(s, i + Len(sep), Len(s)), sep)

DigitValue(c) ==
    CASE c = "0" -> 0 [] c = "1" -> 1 [] c = "2" -> 2 [] c = "3" -> 3
      [] c = "4" -> 4 [] c = "5" -> 5 [] c = "6" -> 6 [] c = "7" -> 7
      [] c = "8" -> 8 [] c = "9" -> 9

\* the most digits int() converts (sys.get_int_max_str_digits() of the
\* interpreter); a text of more raises ValueError
MaxStrDigits == 4300

\* the digits of a decimal literal of int(): digits with single underscores
\* between them, at most MaxStrDigits digits
DigitGroups(s) ==
    /\ Len(s) > 0
    /\ Cardinality({i \in 1..Len(s) : CharAt(s, i) \in Digits}) <= MaxStrDigits
    /\ \A i \in 1..Len(s) : CharAt(s, i) \in Digits \cup {"_"}
    /\ CharAt(s, 1) # "_"
    /\ CharAt(s, Len(s)) # "_"
    /\ \A i \in 1..(Len(s) - 1) : ~(CharAt(s, i) = "_" /\ CharAt(s, i + 1) = "_")

RECURSIVE DigitsValue(_)
\* the value of the digits of s, its underscores passed over
DigitsValue(s) ==
    IF Len(s) = 0 THEN 0
    ELSE IF CharAt(s, Len(s)) = "_" THEN DigitsValue(SubSeq(s, 1, Len(s) - 1))
    ELSE 10 * DigitsValue(SubSeq(s, 1, Len(s) - 1)) + DigitValue(CharAt(s, Len(s)))

RECURSIVE IntStrip(_)
\* s without the whitespace int() passes over at its ends
IntStrip(s) ==
    IF Len(s) > 0 /\ CharAt(s, 1) \in IntWhiteSpace THEN IntStrip(Tail(s))
    ELSE IF Len(s) > 0 /\ CharAt(s, Len(s)) \in IntWhiteSpace
    THEN IntStrip(SubSeq(s, 1, Len(s) - 1))
    ELSE s

\* int(s) succeeds: surrounding whitespace, an optional sign, decimal digits
\* with single underscores between them (the digits of the model are ASCII)
IntParses(s) ==
    LET t == IntStrip(s)
    IN  IF Len(t) > 0 /\ CharAt(t, 1) \in {"+", "-"}
        THEN DigitGroups(Tail(t))
        ELSE DigitGroups(t)

\* int(s), where it succeeds
IntValue(s) ==
    LET t == IntStrip(s)
    IN  IF CharAt(t, 1) = "-" THEN 0 - DigitsValue(Tail(t))
        ELSE IF CharAt(t, 1) = "+" THEN DigitsValue(Tail(t))
        ELSE DigitsValue(t)

(***************************************************************************)
(* XML documents as xml.etree.ElementTree presents them: an element has a  *)
(* tag in Clark notation "{namespace}local", the attribute L, the text     *)
(* before its first child ("" when there is none) and its child elements   *)
(* in document order.  A document is well formed or not; a well-formed one *)
(* has one document element.                                               *)
(***************************************************************************)
AR_NS == "http://autosar.org/schema/r4.0"

\* the qualified tag that the prefix ar: of a path resolves to
QName(ns, local) == "{" \o ns \o "}" \o local

\* SimpleARXMLParser.__init__: the namespace table, prefix ar
ParserNs == AR_NS

\* elem.find('ar:TAG', ns) over a sequence of elements: those with the tag
SelectTag(elems, ns, local) ==
    SelectSeq(elems, LAMBDA e : e.tag = QName(ns, local))

\* elem.findall('ar:TAG', ns): the children with the tag, in document order
FindAll(elem, ns, local) == SelectTag(elem.kids, ns, local)

RECURSIVE Descendants(_)
RECURSIVE DescendantsOfSeq(_)
\* the proper descendants of elem in document order ('.//' never yields elem)
Descendants(elem) == DescendantsOfSeq(elem.kids)

DescendantsOfSeq(elems) ==
    IF Len(elems) = 0 THEN <<>>
    ELSE <<Head(elems)>> \o Descendants(Head(elems)) \o DescendantsOfSeq(Tail(elems))

\* elem.findall('.//ar:TAG', ns)
FindAllDeep(elem, ns, local) == SelectTag(Descendants(elem), ns, local)

\* the matches of 'ar:DESC/ar:L-2[@L="EN"]' below parent, in document order
RECURSIVE KidsOfAll(_)
KidsOfAll(elems) ==
    IF Len(elems) = 0 THEN <<>> ELSE Head(elems).kids \o KidsOfAll(Tail(elems))

DescMatches(parent, ns) ==
    SelectSeq(SelectTag(KidsOfAll(FindAll(parent, ns, "DESC")), ns, "L-2"),
              LAMBDA e : e.L = "EN")

\* None where an element may stand; no element has an empty tag
None == [tag |-> "", L |-> "", text |-> "", kids |-> <<>>]

\* _get_text, given the elements the path matches
TextOfFirst(matches, default) ==
    IF Len(matches) > 0 /\ Head(matches).text # ""
    THEN Strip(Head(matches).text)
    ELSE default

\* _get_text(parent, 'ar:TAG', default)
_get_text(parent, ns, local, default) ==
    IF parent = None THEN default
    ELSE TextOfFirst(FindAll(parent, ns, local), default)

\* _get_text(parent, 'ar:DESC/ar:L-2[@L="EN"]', default="")
_get_text_desc(parent, ns) ==
    IF parent = None THEN "" ELSE TextOfFirst(DescMatches(parent, ns), "")

\* _get_multiplicity with the equality test ahead of the test for "*":
\* the fault C9 rules out
_get_multiplicity_EqualFirst(elem, ns) ==
    LET lower == _get_text(elem, ns, "LOWER-MULTIPLICITY", "1")
        upper == _get_text(elem, ns, "UPPER-MULTIPLICITY", "1")
    IN  IF lower = upper THEN lower
        ELSE IF upper = "*" THEN lower \o "..*"
        ELSE lower \o ".." \o upper

\* _get_multiplicity
_get_multiplicity(elem, ns) ==
    LET lower == _get_text(elem, ns, "LOWER-MULTIPLICITY", "1")
        upper == _get_text(elem, ns, "UPPER-MULTIPLICITY", "1")
    IN  IF upper = "*" THEN lower \o "..*"
        ELSE IF lower = upper THEN lower
        ELSE lower \o ".." \o upper

Last(s) == s[Len(s)]

\* tag.split('}')[-1] if '}' in tag else tag
LocalName(tag) == IF Contains(tag, "}") THEN Last(Split(tag, "}")) ELSE tag

\* the kind taken to be the tag itself, without the table: the fault C12
\* rules out
ParamTypeMapping_TagAsKind(local) == local

\* type_mapping.get(param_type, 'UNKNOWN') of _parse_parameter
ParamTypeMapping(local) ==
    CASE local = "ECUC-BOOLEAN-PARAM-DEF" -> "BOOLEAN"
      [] local = "ECUC-INTEGER-PARAM-DEF" -> "INTEGER"
      [] local = "ECUC-FLOAT-PARAM-DEF" -> "FLOAT"
      [] local = "ECUC-STRING-PARAM-DEF" -> "STRING"
      [] local = "ECUC-ENUMERATION-PARAM-DEF" -> "ENUMERATION"
      [] local = "ECUC-FUNCTION-NAME-DEF" -> "FUNCTION_NAME"
      [] OTHER -> "UNKNOWN"

\* the reference table with the fallback of the parameter table: the fault
\* C8 rules out
RefTypeMapping_UnknownFallback(local) ==
    CASE local = "ECUC-REFERENCE-DEF" -> "REFERENCE"
      [] local = "ECUC-CHOICE-REFERENCE-DEF" -> "CHOICE_REFERENCE"
      [] local = "ECUC-FOREIGN-REFERENCE-DEF" -> "FOREIGN_REFERENCE"
      [] OTHER -> "UNKNOWN"

\* type_mapping.get(ref_type, 'REFERENCE') of _parse_reference
RefTypeMapping(local) ==
    CASE local = "ECUC-REFERENCE-DEF" -> "REFERENCE"
      [] local = "ECUC-CHOICE-REFERENCE-DEF" -> "CHOICE_REFERENCE"
      [] local = "ECUC-FOREIGN-REFERENCE-DEF" -> "FOREIGN_REFERENCE"
      [] OTHER -> "REFERENCE"

\* the literal names _parse_parameter appends: non-empty short names of the
\* ECUC-ENUMERATION-LITERAL-DEF children of the first LITERALS child
LiteralNames(param_elem, ns) ==
    LET groups == FindAll(param_elem, ns, "LITERALS")
        lits == IF Len(groups) = 0 THEN <<>>
                ELSE FindAll(Head(groups), ns, "ECUC-ENUMERATION-LITERAL-DEF")
        names == [i \in 1..Len(lits) |-> _get_text(lits[i], ns, "SHORT-NAME", "")]
    IN  SelectSeq(names, LAMBDA n : n # "")

_parse_parameter(param_elem, ns) ==
    [name |-> _get_text(param_elem, ns, "SHORT-NAME", ""),
     param_type |-> ParamTypeMapping(LocalName(param_elem.tag)),
     multiplicity |-> _get_multiplicity(param_elem, ns),
     description |-> _get_text_desc(param_elem, ns),
     default_value |-> _get_text(param_elem, ns, "DEFAULT-VALUE", ""),
     min_value |-> _get_text(param_elem, ns, "MIN", ""),
     max_value |-> _get_text(param_elem, ns, "MAX", ""),
     literals |-> LiteralNames(param_elem, ns)]

\* the destinations _parse_reference appends: the unstripped text of the
\* first DESTINATION-REF child when it is non-empty
Destinations(ref_elem, ns) ==
    LET dest == FindAll(ref_elem, ns, "DESTINATION-REF")
    IN  IF Len(dest) > 0 /\ Head(dest).text # "" THEN <<Head(dest).text>> ELSE <<>>

_parse_reference(ref_elem, ns) ==
    [name |-> _get_text(ref_elem, ns, "SHORT-NAME", ""),
     ref_type |-> RefTypeMapping(LocalName(ref_elem.tag)),
     multiplicity |-> _get_multiplicity(ref_elem, ns),
     description |-> _get_text_desc(ref_elem, ns),
     destinations |-> Destinations(ref_elem, ns)]

\* the children of the first child of elem with the tag (none when absent):
\* "x = elem.find('ar:TAG'); if x is not None: for child in x"
GroupKids(elem, ns, local) ==
    LET groups == FindAll(elem, ns, local)
    IN  IF Len(groups) = 0 THEN <<>> ELSE Head(groups).kids

RECURSIVE _parse_container_KindFromTag(_, _)
\* _parse_container giving a nested container the kind of its tag: the fault
\* C18 rules out
_parse_container_KindFromTag(container_elem, ns) ==
    LET params == GroupKids(container_elem, ns, "PARAMETERS")
        refs == GroupKids(container_elem, ns, "REFERENCES")
        nested == GroupKids(container_elem, ns, "SUB-CONTAINERS")
                  \o GroupKids(container_elem, ns, "CHOICES")
    IN  [name |-> _get_text(container_elem, ns, "SHORT-NAME", ""),
         container_type |-> "CONTAINER",
         multiplicity |-> _get_multiplicity(container_elem, ns),
         description |-> _get_text_desc(container_elem, ns),
         config_classes |-> <<>>,
         parameters |-> [i \in 1..Len(params) |-> _parse_parameter(params[i], ns)],
         references |-> [i \in 1..Len(refs) |-> _parse_reference(refs[i], ns)],
         sub_containers |->
             [i \in 1..Len(nested) |->
                 [_parse_container_KindFromTag(nested[i], ns)
                      EXCEPT !.container_type =
                          IF nested[i].tag = QName(ns, "ECUC-CHOICE-CONTAINER-DEF")
                          THEN "CHOICE_CONTAINER"
                          ELSE "SUB_CONTAINER"]]]

RECURSIVE _parse_container_ChoicesFirst(_, _)
\* _parse_container appending the choice containers before the
\* sub-containers: the fault C17 rules out
_parse_container_ChoicesFirst(container_elem, ns) ==
    LET params == GroupKids(container_elem, ns, "PARAMETERS")
        refs == GroupKids(container_elem, ns, "REFERENCES")
        subs == GroupKids(container_elem, ns, "SUB-CONTAINERS")
        choices == GroupKids(container_elem, ns, "CHOICES")
    IN  [name |-> _get_text(container_elem, ns, "SHORT-NAME", ""),
         container_type |-> "CONTAINER",
         multiplicity |-> _get_multiplicity(container_elem, ns),
         description |-> _get_text_desc(container_elem, ns),
         config_classes |-> <<>>,
         parameters |-> [i \in 1..Len(params) |-> _parse_parameter(params[i], ns)],
         references |-> [i \in 1..Len(refs) |-> _parse_reference(refs[i], ns)],
         sub_containers |->
             [i \in 1..Len(choices) |->
                 [_parse_container_ChoicesFirst(choices[i], ns)
                      EXCEPT !.container_type = "CHOICE_CONTAINER"]]
             \o
             [i \in 1..Len(subs) |->
                 [_parse_container_ChoicesFirst(subs[i], ns)
                      EXCEPT !.container_type = "SUB_CONTAINER"]]]

RECURSIVE _parse_container(_, _)
_parse_container(container_elem, ns) ==
    LET params == GroupKids(container_elem, ns, "PARAMETERS")
        refs == GroupKids(container_elem, ns, "REFERENCES")
        subs == GroupKids(container_elem, ns, "SUB-CONTAINERS")
        choices == GroupKids(container_elem, ns, "CHOICES")
    IN  [name |-> _get_text(container_elem, ns, "SHORT-NAME", ""),
         container_type |-> "CONTAINER",
         multiplicity |-> _get_multiplicity(container_elem, ns),
         description |-> _get_text_desc(container_elem, ns),
         config_classes |-> <<>>,
         parameters |-> [i \in 1..Len(params) |-> _parse_parameter(params[i], ns)],
         references |-> [i \in 1..Len(refs) |-> _parse_reference(refs[i], ns)],
         sub_containers |->
             [i \in 1..Len(subs) |->
                 [_parse_container(subs[i], ns) EXCEPT !.container_type = "SUB_CONTAINER"]]
             \o
             [i \in 1..Len(choices) |->
                 [_parse_container(choices[i], ns) EXCEPT !.container_type = "CHOICE_CONTAINER"]]]

\* the root search falling back to a container definition below any
\* destination-URI definition: the fault C3 rules out
FindModuleDef_AnyDestination(root, ns) ==
    LET mods == FindAllDeep(root, ns, "ECUC-MODULE-DEF")
        dests == FindAllDeep(root, ns, "ECUC-DESTINATION-URI-DEF")
        confs == SelectSeq(FindAllDeep(root, ns, "ECUC-PARAM-CONF-CONTAINER-DEF"),
                     LAMBDA c : \E i \in 1..Len(dests) :
                         \E k \in 1..Len(Descendants(dests[i])) :
                             Descendants(dests[i])[k] = c)
    IN  IF Len(mods) > 0 THEN <<Head(mods)>>
        ELSE IF Len(confs) > 0 THEN <<Head(confs)>> ELSE <<>>

\* the root parse_arxml_file settles on, as a sequence of at most one element
\* (lines 102-110): the first ECUC-MODULE-DEF below the document element, else
\* the first ECUC-PARAM-CONF-CONTAINER-DEF below the first
\* ECUC-DESTINATION-URI-DEF below the document element
FindModuleDef(root, ns) ==
    LET mods == FindAllDeep(root, ns, "ECUC-MODULE-DEF")
        dests == FindAllDeep(root, ns, "ECUC-DESTINATION-URI-DEF")
    IN  IF Len(mods) > 0 THEN <<Head(mods)>>
        ELSE IF Len(dests) = 0 THEN <<>>
        ELSE LET confs == FindAllDeep(Head(dests), ns, "ECUC-PARAM-CONF-CONTAINER-DEF")
             IN  IF Len(confs) > 0 THEN <<Head(confs)>> ELSE <<>>

\* the containers of the Module taken from every child of the two groupings,
\* as _parse_container takes them: the fault C6 rules out
ModuleContainers_EveryChild(module_def, ns) ==
    LET subs == GroupKids(module_def, ns, "SUB-CONTAINERS")
        direct == GroupKids(module_def, ns, "CONTAINERS")
    IN  [i \in 1..Len(subs) |-> _parse_container(subs[i], ns)]
        \o [i \in 1..Len(direct) |-> _parse_container(direct[i], ns)]

\* the containers of the Module with the direct grouping read first: the
\* fault C7 rules out
ModuleContainers_DirectFirst(module_def, ns) ==
    LET subs == LET g == FindAll(module_def, ns, "SUB-CONTAINERS")
                IN  IF Len(g) = 0 THEN <<>>
                    ELSE FindAll(Head(g), ns, "ECUC-PARAM-CONF-CONTAINER-DEF")
        direct == LET g == FindAll(module_def, ns, "CONTAINERS")
                  IN  IF Len(g) = 0 THEN <<>>
                      ELSE FindAll(Head(g), ns, "ECUC-PARAM-CONF-CONTAINER-DEF")
    IN  [i \in 1..Len(direct) |-> _parse_container(direct[i], ns)]
        \o [i \in 1..Len(subs) |-> _parse_container(subs[i], ns)]

\* the containers of the Module (lines 123-135)
ModuleContainers(module_def, ns) ==
    LET subs == LET g == FindAll(module_def, ns, "SUB-CONTAINERS")
                IN  IF Len(g) = 0 THEN <<>>
                    ELSE FindAll(Head(g), ns, "ECUC-PARAM-CONF-CONTAINER-DEF")
        direct == LET g == FindAll(module_def, ns, "CONTAINERS")
                  IN  IF Len(g) = 0 THEN <<>>
                      ELSE FindAll(Head(g), ns, "ECUC-PARAM-CONF-CONTAINER-DEF")
    IN  [i \in 1..Len(subs) |-> _parse_container(subs[i], ns)]
        \o [i \in 1..Len(direct) |-> _parse_container(direct[i], ns)]

\* Module(...) of lines 116-121 with its containers
BuildModule(module_def, ns) ==
    [name |-> _get_text(module_def, ns, "SHORT-NAME", ""),
     description |-> _get_text_desc(module_def, ns),
     category |-> _get_text(module_def, ns, "CATEGORY", ""),
     version |-> _get_text(module_def, ns, "VERSION", ""),
     containers |-> ModuleContainers(module_def, ns)]

NoModule ==
    [name |-> "", description |-> "", category |-> "", version |-> "",
     containers |-> <<>>]

NoException == [type |-> "", msg |-> ""]

\* raise Exception(f"Error parsing ARXML file: {e}") of line 140
WrapException(inner) ==
    [type |-> "Exception", msg |-> "Error parsing ARXML file: " \o inner]

NoRootMessage ==
    "No ECUC-MODULE-DEF or ECUC-PARAM-CONF-CONTAINER-DEF found in the file"

\* parse_arxml_file: a Module, or the exception that leaves the call.
\* doc.parse_error is the message of the ParseError ET.parse raises on a
\* document that is not well formed.
parse_arxml_file(ns, doc) ==
    IF ~doc.well_formed
    THEN [raised |-> TRUE, exc |-> WrapException(doc.parse_error), module |-> NoModule]
    ELSE LET module_def == FindModuleDef(doc.root, ns)
         IN  IF Len(module_def) = 0
             THEN [raised |-> TRUE, exc |-> WrapException(NoRootMessage),
                   module |-> NoModule]
             ELSE [raised |-> FALSE, exc |-> NoException,
                   module |-> BuildModule(Head(module_def), ns)]

(***************************************************************************)
(* JSON values and Python dicts                                            *)
(***************************************************************************)
JStr(s) == [j |-> "str", v |-> s]
JInt(n) == [j |-> "int", v |-> n]
JList(elems) == [j |-> "list", v |-> elems]
JDict(items) == [j |-> "dict", v |-> items]

\* the keys of a dict, in insertion order
DictKeys(items) == [i \in 1..Len(items) |-> items[i][1]]

KeySet(items) == {items[i][1] : i \in 1..Len(items)}

\* d[k] for a key of d
DictGet(items, k) ==
    items[CHOOSE i \in 1..Len(items) : items[i][1] = k][2]

\* d[k] = v leaving a key already present with the value it has: the fault
\* C20 rules out
DictSet_KeepFirst(items, k, v) ==
    IF k \in KeySet(items) THEN items ELSE Append(items, <<k, v>>)

\* d[k] = v with a key already present moved to the end: the fault C11
\* rules out
DictSet_MoveToEnd(items, k, v) ==
    Append(SelectSeq(items, LAMBDA it : it[1] # k), <<k, v>>)

\* d[k] = v: a key already present keeps its position and gets the new value
DictSet(items, k, v) ==
    IF k \in KeySet(items)
    THEN [i \in 1..Len(items) |-> IF items[i][1] = k THEN <<k, v>> ELSE items[i]]
    ELSE Append(items, <<k, v>>)

\* the items added by "if value: d[key] = json" for one optional key
OptionalItem(present, key, json) == IF present THEN <<<<key, json>>>> ELSE <<>>

(***************************************************************************)
(* The compact projection: the JSONGenerator in effect (lines 475-547)     *)
(***************************************************************************)
StrList(strs) == JList([i \in 1..Len(strs) |-> JStr(strs[i])])

\* _parameter_to_json without the test for the default "1": the fault C2
\* rules out
_parameter_to_json_AlwaysMultiplicity(param) ==
    JDict(
        OptionalItem(param.param_type # "", "type", JStr(param.param_type))
        \o OptionalItem(param.multiplicity # "", "multiplicity", JStr(param.multiplicity))
        \o OptionalItem(Len(param.literals) > 0, "options", StrList(param.literals))
        \o OptionalItem(param.min_value # "", "minValue", JStr(param.min_value))
        \o OptionalItem(param.max_value # "", "maxValue", JStr(param.max_value))
        \o OptionalItem(param.default_value # "", "default", JStr(param.default_value))
        \o OptionalItem(param.description # "", "description", JStr(param.description)))

_parameter_to_json(param) ==
    JDict(
        OptionalItem(param.param_type # "", "type", JStr(param.param_type))
        \o OptionalItem(param.multiplicity # "" /\ param.multiplicity # "1",
                        "multiplicity", JStr(param.multiplicity))
        \o OptionalItem(Len(param.literals) > 0, "options", StrList(param.literals))
        \o OptionalItem(param.min_value # "", "minValue", JStr(param.min_value))
        \o OptionalItem(param.max_value # "", "maxValue", JStr(param.max_value))
        \o OptionalItem(param.default_value # "", "default", JStr(param.default_value))
        \o OptionalItem(param.description # "", "description", JStr(param.description)))

RECURSIVE AddParameters(_, _)
\* for param in container.parameters: container_dict[param.name] = ...
AddParameters(items, params) ==
    IF Len(params) = 0 THEN items
    ELSE AddParameters(DictSet(items, Head(params).name, _parameter_to_json(Head(params))),
                       Tail(params))

\* _container_to_json without its second loop: the fault C1 rules out
_container_to_json_ParametersOnly(container) ==
    JDict(AddParameters(<<>>, container.parameters))

RECURSIVE _container_to_json(_)
RECURSIVE AddContainers(_, _)
\* for sub in containers: container_dict[sub.name] = self._container_to_json(sub)
AddContainers(items, containers) ==
    IF Len(containers) = 0 THEN items
    ELSE AddContainers(DictSet(items, Head(containers).name,
                               _container_to_json(Head(containers))),
                       Tail(containers))

_container_to_json(container) ==
    JDict(AddContainers(AddParameters(<<>>, container.parameters),
                        container.sub_containers))

\* JSONGenerator.generate_json of lines 481-489
generate_json(module) ==
    JDict(<<<<module.name, JDict(AddContainers(<<>>, module.containers))>>>>)

(***************************************************************************)
(* The descriptive projection: the first JSONGenerator (lines 267-358)     *)
(***************************************************************************)
_extract_lower_multiplicity(multiplicity) ==
    IF multiplicity = "" THEN 1
    ELSE LET first == Head(Split(multiplicity, "."))
         IN  IF IntParses(first) THEN IntValue(first) ELSE 1

_extract_upper_multiplicity(multiplicity) ==
    IF multiplicity = "" THEN 1
    ELSE IF Contains(multiplicity, "..*") THEN 0 - 1
    ELSE LET parts == Split(multiplicity, "..")
             text == IF Len(parts) > 1 THEN parts[2]
                     ELSE Head(Split(multiplicity, "."))
         IN  IF IntParses(text) THEN IntValue(text) ELSE 1

_parameter_to_dict(param) ==
    JDict(<< <<"name", JStr(param.name)>>,
             <<"type", JStr(param.param_type)>>,
             <<"multiplicity", JStr(param.multiplicity)>>,
             <<"description", JStr(param.description)>>,
             <<"default", JStr(param.default_value)>>,
             <<"min", JStr(param.min_value)>>,
             <<"max", JStr(param.max_value)>>,
             <<"literals", StrList(param.literals)>> >>)

_reference_to_dict(ref) ==
    JDict(<< <<"name", JStr(ref.name)>>,
             <<"type", JStr(ref.ref_type)>>,
             <<"multiplicity", JStr(ref.multiplicity)>>,
             <<"description", JStr(ref.description)>>,
             <<"destinations", StrList(ref.destinations)>> >>)

RECURSIVE _container_to_dict(_)
_container_to_dict(container) ==
    JDict(<< <<"name", JStr(container.name)>>,
             <<"type", JStr(container.container_type)>>,
             <<"multiplicity", JStr(container.multiplicity)>>,
             <<"description", JStr(container.description)>>,
             <<"lowerMultiplicity",
               JInt(_extract_lower_multiplicity(container.multiplicity))>>,
             <<"upperMultiplicity",
               JInt(_extract_upper_multiplicity(container.multiplicity))>>,
             <<"parameters",
               JList([i \in 1..Len(container.parameters) |->
                         _parameter_to_dict(container.parameters[i])])>>,
             <<"references",
               JList([i \in 1..Len(container.references) |->
                         _reference_to_dict(container.references[i])])>>,
             <<"sub_containers",
               JList([i \in 1..Len(container.sub_containers) |->
                         _container_to_dict(container.sub_containers[i])])>> >>)

\* JSONGenerator.generate_json of lines 273-287
generate_json_descriptive(module) ==
    JDict(<< <<"name", JStr(module.name)>>,
             <<"type", JStr("MODULE")>>,
             <<"description", JStr(module.description)>>,
             <<"category", JStr(module.category)>>,
             <<"version", JStr(module.version)>>,
             <<"containers",
               JList([i \in 1..Len(module.containers) |->
                         _container_to_dict(module.containers[i])])>> >>)

(***************************************************************************)
(* Input documents                                                         *)
(***************************************************************************)
Elem(local, text, kids) ==
    [tag |-> QName(AR_NS, local), L |-> "", text |-> text, kids |-> kids]

TextElem(local, text) == Elem(local, text, <<>>)

\* <DESC><L-2 L="lang">text</L-2></DESC>
DescElem(lang, text) ==
    Elem("DESC", "", <<[tag |-> QName(AR_NS, "L-2"), L |-> lang, text |-> text,
                        kids |-> <<>>]>>)

\* the group element, left out when it would hold no child
Group(local, kids) == IF Len(kids) = 0 THEN <<>> ELSE <<Elem(local, "", kids)>>

RECURSIVE InNamespace(_, _)
\* the same element with every tag moved to the namespace ns
InNamespace(elem, ns) ==
    [elem EXCEPT !.tag = QName(ns, LocalName(elem.tag)),
                 !.kids = [i \in 1..Len(elem.kids) |-> InNamespace(elem.kids[i], ns)]]

RECURSIVE SeqsUpTo(_, _)
\* the sequences over S of length at most n
SeqsUpTo(S, n) ==
    IF n = 0 THEN {<<>>}
    ELSE LET shorter == SeqsUpTo(S, n - 1)
         IN  shorter \cup {Append(q, e) : q \in shorter, e \in S}

RECURSIVE StringsUpTo(_, _)
\* the strings over the characters C of length at most n
StringsUpTo(C, n) ==
    IF n = 0 THEN {""}
    ELSE LET shorter == StringsUpTo(C, n - 1)
         IN  shorter \cup {t \o c : t \in shorter, c \in C}

WellFormed(root) == [well_formed |-> TRUE, parse_error |-> "", root |-> root]

Malformed(message) ==
    [well_formed |-> FALSE, parse_error |-> message, root |-> Elem("", "", <<>>)]

FilePaths == {"Com_ParamDef.arxml", "/ws/cfg/NvM_paramdef.arxml"}

OTHER_NS == "http://autosar.org/schema/r4.1"

\* a parameter-configuration container definition
ContainerDef(name, content) ==
    Elem("ECUC-PARAM-CONF-CONTAINER-DEF", "", <<TextElem("SHORT-NAME", name)>> \o content)

BoolParam(name) ==
    Elem("ECUC-BOOLEAN-PARAM-DEF", "", <<TextElem("SHORT-NAME", name)>>)

\* a module definition with one container holding one parameter
ModuleDef(name) ==
    Elem("ECUC-MODULE-DEF", "",
         <<TextElem("SHORT-NAME", name),
           Elem("CONTAINERS", "",
                <<ContainerDef(name \o "General",
                               Group("PARAMETERS", <<BoolParam(name \o "DevError")>>))>>)>>)

DestinationUriDef(kids) ==
    Elem("ECUC-DESTINATION-URI-DEF", "", <<TextElem("SHORT-NAME", "Uri")>> \o kids)

\* the elements a document of the root family holds below its document element
TopItems ==
    { ModuleDef("Com"),
      Elem("AR-PACKAGES", "", <<Elem("AR-PACKAGE", "", <<ModuleDef("NvM")>>)>>),
      DestinationUriDef(<<Elem("DESTINATION-URI-POLICY", "",
                               <<ContainerDef("UriCfg",
                                     Group("PARAMETERS", <<BoolParam("UriFlag")>>))>>)>>),
      DestinationUriDef(<<>>),
      ContainerDef("Loose", <<>>) }

\* the document elements of the root family: an AUTOSAR element, or a module
\* definition that is itself the document element
RootFamilyRoots ==
    LET tops == SeqsUpTo(TopItems, MaxTop)
    IN  {Elem("AUTOSAR", "", t) : t \in tops}
        \cup {Elem("ECUC-MODULE-DEF", "", <<TextElem("SHORT-NAME", "Self")>> \o t) : t \in tops}

RootFamily ==
    {WellFormed(r) : r \in RootFamilyRoots}
    \cup {WellFormed(InNamespace(r, OTHER_NS)) : r \in RootFamilyRoots}
    \cup {Malformed(m) : m \in {"syntax error: line 1, column 0",
                                "mismatched tag: line 7, column 4"}}

\* a container definition without a SHORT-NAME
NamelessContainerDef == Elem("ECUC-PARAM-CONF-CONTAINER-DEF", "", <<>>)

ChoiceContainerDef(name, content) ==
    Elem("ECUC-CHOICE-CONTAINER-DEF", "", <<TextElem("SHORT-NAME", name)>> \o content)

\* the child elements a grouping of the root may hold
RootKidElems ==
    { ContainerDef("A", <<>>), NamelessContainerDef, ChoiceContainerDef("C", <<>>) }

\* the groupings of the root, in document order
GroupLayouts ==
    { <<>>, <<"SUB-CONTAINERS">>, <<"CONTAINERS">>,
      <<"SUB-CONTAINERS", "CONTAINERS">>, <<"CONTAINERS", "SUB-CONTAINERS">> }

\* the bodies of a root: for each grouping of a layout a sequence of children
\* (a grouping may be present and empty)
GroupBodies ==
    LET kidSeqs == SeqsUpTo(RootKidElems, MaxKids)
    IN  UNION { { [i \in 1..Len(layout) |-> Elem(layout[i], "", ks[i])] :
                    ks \in [1..Len(layout) -> kidSeqs] } : layout \in GroupLayouts }

\* the roots of the grouping family: a module definition, or a container
\* definition wrapped by a destination-URI definition
GroupFamily ==
    LET name == <<TextElem("SHORT-NAME", "Mod")>>
    IN  {WellFormed(Elem("AUTOSAR", "", <<Elem("ECUC-MODULE-DEF", "", name \o b)>>)) :
            b \in GroupBodies}
        \cup
        {WellFormed(Elem("AUTOSAR", "",
             <<DestinationUriDef(<<Elem("ECUC-PARAM-CONF-CONTAINER-DEF", "", name \o b)>>)>>)) :
            b \in GroupBodies}

\* a parameter or reference definition with the given tag
Def(local, name, content) ==
    Elem(local, "", <<TextElem("SHORT-NAME", name)>> \o content)

EnumLiterals(names) ==
    Elem("LITERALS", "",
         [i \in 1..Len(names) |-> Def("ECUC-ENUMERATION-LITERAL-DEF", names[i], <<>>)])

\* the children a PARAMETERS group of the tree family may hold: known tags,
\* a tag outside the table, a name shared with a sub-container (and one that
\* differs from a sub-container's in case only), a definition without a name
ParamElems ==
    { Def("ECUC-BOOLEAN-PARAM-DEF", "Flag", <<TextElem("DEFAULT-VALUE", "true")>>),
      Def("ECUC-ADD-INFO-PARAM-DEF", "Info", <<>>),
      Def("ECUC-INTEGER-PARAM-DEF", "Sub",
          <<TextElem("MIN", "0"), TextElem("MAX", "255"),
            TextElem("UPPER-MULTIPLICITY", "*")>>),
      Elem("ECUC-ENUMERATION-PARAM-DEF", "",
           <<DescElem("EN", "no name"), EnumLiterals(<<"ON", "OFF">>)>>) }

\* the children a REFERENCES group of the tree family may hold
RefElems ==
    { Def("ECUC-REFERENCE-DEF", "Ref", <<TextElem("DESTINATION-REF", "/Pkg/Com/Pdu")>>),
      Def("ECUC-URI-REFERENCE-DEF", "Flag", <<>>),
      Elem("ECUC-CHOICE-REFERENCE-DEF", "", <<>>) }

\* the children a SUB-CONTAINERS group of the tree family may hold
SubElems ==
    { ContainerDef("Sub", Group("PARAMETERS", <<Def("ECUC-STRING-PARAM-DEF", "Leaf", <<>>)>>)),
      ContainerDef("Flag",
          Group("REFERENCES", <<Def("ECUC-FOREIGN-REFERENCE-DEF", "Far", <<>>)>>)
          \o Group("SUB-CONTAINERS",
                   <<ContainerDef("Deep",
                         Group("PARAMETERS",
                               <<Def("ECUC-LINKER-SYMBOL-DEF", "Sym", <<>>),
                                 Def("ECUC-FUNCTION-NAME-DEF", "Deep", <<>>)>>))>>)),
      ChoiceContainerDef("sub", Group("CHOICES", <<ContainerDef("Alt", <<>>)>>)) }

\* the CHOICES groups of the tree family, as sequences of children
ChoiceSeqs ==
    { <<>>,
      <<ContainerDef("Sub", Group("PARAMETERS", <<Def("ECUC-FLOAT-PARAM-DEF", "Gain", <<>>)>>))>> }

ModuleOf(name, containers) ==
    WellFormed(Elem("AUTOSAR", "",
        <<Elem("AR-PACKAGES", "",
            <<Elem("ECUC-MODULE-DEF", "",
                <<TextElem("SHORT-NAME", name),
                  Elem("CONTAINERS", "", containers)>>)>>)>>))

\* top-level containers that share a name, or differ in case only
TopElems ==
    { ContainerDef("Top", <<>>),
      ContainerDef("Top", Group("PARAMETERS", <<Def("ECUC-BOOLEAN-PARAM-DEF", "Flag", <<>>)>>)),
      ContainerDef("top", Group("SUB-CONTAINERS", <<ContainerDef("Top", <<>>)>>)),
      NamelessContainerDef }

\* documents of one module: a container with parameters, one reference,
\* sub-containers and choices; a container with parameters and references;
\* two top-level containers
TreeFamily ==
    LET paramSeqs == SeqsUpTo(ParamElems, MaxKids)
        refSeqs == SeqsUpTo(RefElems, MaxKids)
        subSeqs == SeqsUpTo(SubElems, MaxKids)
        oneRef == <<Def("ECUC-REFERENCE-DEF", "Info", <<>>)>>
    IN  { ModuleOf("Mod", <<ContainerDef("Top",
              Group("PARAMETERS", ps) \o Group("REFERENCES", oneRef)
              \o Group("SUB-CONTAINERS", ss) \o Group("CHOICES", cs))>>) :
            ps \in paramSeqs, ss \in subSeqs, cs \in ChoiceSeqs }
        \cup
        { ModuleOf("mod", <<ContainerDef("Top",
              Group("PARAMETERS", ps) \o Group("REFERENCES", rs))>>) :
            ps \in paramSeqs, rs \in refSeqs }
        \cup
        { ModuleOf(" Mod ", <<a, b>>) : a \in TopElems, b \in TopElems }

\* the characters multiplicity texts are drawn over
MultChars == {"2", "*", ".", " "}

\* multiplicity texts: every string over MultChars up to MaxTextLen, and
\* texts with other digits, a sign, a decimal point, padding, a letter, an
\* underscore between digits and a carriage return
MultTexts ==
    StringsUpTo(MultChars, MaxTextLen)
    \cup {"0", "1", "5", "10", "-1", "2.5", "1.5", " 2 ", "x", "1_0", "\r2", "2..\r5"}

\* the LOWER-MULTIPLICITY and UPPER-MULTIPLICITY children an element may
\* carry: none, one of them, or both
MultChildren ==
    LET lowers == {<<>>} \cup {<<TextElem("LOWER-MULTIPLICITY", t)>> : t \in MultTexts}
        uppers == {<<>>} \cup {<<TextElem("UPPER-MULTIPLICITY", t)>> : t \in MultTexts}
    IN  {l \o u : l \in lowers, u \in uppers}

\* one container, one parameter and one reference with the same multiplicity
MultFamily ==
    { ModuleOf("Mod", <<ContainerDef("Top",
          m \o Group("PARAMETERS", <<Def("ECUC-INTEGER-PARAM-DEF", "P", m)>>)
            \o Group("REFERENCES", <<Def("ECUC-REFERENCE-DEF", "R", m)>>))>>) :
        m \in MultChildren }

\* Parameter(...), the dataclass constructor
Parameter(name, param_type, multiplicity, description, default_value, min_value, max_value, literals) ==
    [name |-> name, param_type |-> param_type, multiplicity |-> multiplicity,
     description |-> description, default_value |-> default_value,
     min_value |-> min_value, max_value |-> max_value, literals |-> literals]

\* Container(...), the dataclass constructor
Container(name, container_type, multiplicity, parameters, references, sub_containers) ==
    [name |-> name, container_type |-> container_type, multiplicity |-> multiplicity,
     description |-> "", config_classes |-> <<>>, parameters |-> parameters,
     references |-> references, sub_containers |-> sub_containers]

\* Parameters as a caller may construct them, every field empty or not
ParameterFamily ==
    { Parameter("P", t, m, d, dv, lo, hi, lits) :
        t \in {"", "BOOLEAN", "ENUMERATION"},
        m \in {"", "1", "2", "0..*"},
        d \in {"", "Period of the main function"},
        dv \in {"", "0.01"},
        lo \in {"", "0"},
        hi \in {"", "255"},
        lits \in {<<>>, <<"ON">>, <<"ON", "OFF">>} }

\* Modules built by a caller: one container holding one Parameter
ModuleFamily ==
    { [name |-> "Mod", description |-> "", category |-> "", version |-> "",
       containers |-> <<Container("C", "CONTAINER", "1", <<q>>, <<>>, <<>>)>>] :
        q \in ParameterFamily }

\* the document of a Module that was not read from a file
NoDocument == Malformed("")

VARIABLES
    file_path,          \* the path handed to the parser
    doc,                \* the document at that path
    phase,              \* "start", "parsed", "converted" or "failed"
    module,             \* the Module returned by parse_arxml_file
    exc,                \* the exception that left the call
    json_compact,       \* <<value>> once the compact projection was produced
    json_descriptive,   \* <<value>> once the descriptive projection was produced
    parser_ns,          \* self.ns of the SimpleARXMLParser object in use
    pending,            \* the documents a parser object is still to be handed (none here)
    tree_simple,        \* <<text>> once generate_simple_tree returned
    tree_detailed,      \* <<text>> once generate_detailed_tree returned
    paramdefs,          \* the files get_all_paramdef_files finds, in order
    keyword,            \* the keyword of a lookup
    lookup,             \* the outcome of the last lookup over paramdefs
    search_key,         \* the key handed to find_path
    path_found,         \* <<path>> once find_path returned (<<>> inside for None)
    request,            \* the path and names handed to create_ecuc_configuration
    config,             \* <<value>> once configure returned
    ecuc_file,          \* <<>> while ecuc_config.json is missing, else <<its content>>
    saved,              \* the configs handed to save_or_merge so far, in call order
    util,               \* the call of mcp_util.get_definition and its outcome
    frames,             \* the frames of get_precise_time on the call stack
    tool_result,        \* the outcome of the tool call get_precise_time
    tool_binding,       \* what the decorator left under the name get_precise_time
    heap,               \* the objects of a session, in the order they were created
    held                \* what the caller of a session got back, call by call

\* the state of one conversion
conv_vars == <<file_path, doc, phase, module, exc, json_compact, json_descriptive>>

\* the state around it: the parser object, the renderer's and the lookups'
\* the state of the server's other tools
srv_vars == <<request, config, ecuc_file, saved, util, frames, tool_result, tool_binding>>

\* the objects of a session and what its caller holds
obj_vars == <<heap, held>>

aux_vars ==
    <<parser_ns, pending, tree_simple, tree_detailed, paramdefs, keyword, lookup,
      search_key, path_found, srv_vars, obj_vars>>

vars == <<conv_vars, aux_vars>>

\* no lookup was made
NoLookup ==
    [fn |-> "", scoring |-> <<>>, orders |-> <<>>, raised |-> FALSE, calls |-> <<>>,
     none |-> FALSE, entries |-> <<>>]

\* no request was made
NoRequest == [path |-> "", names |-> <<>>]

\* mcp_util.get_definition was not called
NoUtilCall ==
    [files |-> <<>>, keyword |-> "", return_path |-> FALSE, outcome |-> "", value |-> <<>>]

\* the server's other tools were not called, ecuc_config.json is missing and
\* mcp_server was not loaded
SrvIdle ==
    /\ request = NoRequest
    /\ config = <<>>
    /\ ecuc_file = <<>>
    /\ saved = <<>>
    /\ util = NoUtilCall
    /\ frames = 0
    /\ tool_result = ""
    /\ tool_binding = ""

\* no session was opened
ObjIdle ==
    /\ heap = <<>>
    /\ held = <<>>

\* a parser object was constructed; nothing else has happened
AuxIdle ==
    /\ parser_ns = ParserNs
    /\ pending = <<>>
    /\ tree_simple = <<>>
    /\ tree_detailed = <<>>
    /\ paramdefs = <<>>
    /\ keyword = ""
    /\ lookup = NoLookup
    /\ search_key = ""
    /\ path_found = <<>>
    /\ SrvIdle
    /\ ObjIdle

InitOn(paths, docs) ==
    /\ file_path \in paths
    /\ doc \in docs
    /\ phase = "start"
    /\ module = NoModule
    /\ exc = NoException
    /\ json_compact = <<>>
    /\ json_descriptive = <<>>
    /\ AuxIdle

Init == InitOn(FilePaths, RootFamily)

\* SimpleARXMLParser().parse_arxml_file(file_path)
ParseArxmlFile ==
    /\ phase = "start"
    /\ LET r == parse_arxml_file(parser_ns, doc)
       IN  /\ phase' = IF r.raised THEN "failed" ELSE "parsed"
           /\ module' = r.module
           /\ exc' = r.exc
    /\ UNCHANGED <<file_path, doc, json_compact, json_descriptive, aux_vars>>

\* convert_paramdef_to_json(file_path)
ConvertParamdefToJson ==
    /\ phase = "start"
    /\ LET r == parse_arxml_file(parser_ns, doc)
       IN  /\ phase' = IF r.raised THEN "failed" ELSE "converted"
           /\ module' = r.module
           /\ exc' = r.exc
           /\ json_compact' = IF r.raised THEN <<>> ELSE <<generate_json(r.module)>>
    /\ UNCHANGED <<file_path, doc, json_descriptive, aux_vars>>

\* JSONGenerator(module).generate_json(), the generator in effect
GenerateJson ==
    /\ phase = "parsed"
    /\ json_compact' = <<generate_json(module)>>
    /\ UNCHANGED <<file_path, doc, phase, module, exc, json_descriptive, aux_vars>>

\* generate_json of the first JSONGenerator
GenerateJsonDescriptive ==
    /\ phase = "parsed"
    /\ json_descriptive' = <<generate_json_descriptive(module)>>
    /\ UNCHANGED <<file_path, doc, phase, module, exc, json_compact, aux_vars>>

Next ==
    \/ ParseArxmlFile
    \/ ConvertParamdefToJson
    \/ GenerateJson
    \/ GenerateJsonDescriptive

Spec == Init /\ [][Next]_vars

\* a Module handed to the generators by a caller that built it
InitModule ==
    /\ file_path = ""
    /\ doc = NoDocument
    /\ phase = "parsed"
    /\ module \in ModuleFamily
    /\ exc = NoException
    /\ json_compact = <<>>
    /\ json_descriptive = <<>>
    /\ AuxIdle

NextProject ==
    \/ GenerateJson
    \/ GenerateJsonDescriptive

\* the projections of constructed Modules
SpecParam == InitModule /\ [][NextProject]_vars

\* documents that differ in what their containers hold
SpecTree == InitOn({"Mod_ParamDef.arxml"}, TreeFamily) /\ [][Next]_vars

\* documents that differ in the multiplicity texts of their elements
SpecMult == InitOn({"Mod_ParamDef.arxml"}, MultFamily) /\ [][Next]_vars

\* documents that differ in the groupings of the root
SpecGroup == InitOn({"Mod_ParamDef.arxml"}, GroupFamily) /\ [][Next]_vars

(***************************************************************************)
(* Documents around the end-to-end scenario: module Com, container         *)
(* ComConfig, parameter ComMainFunctionPeriod                              *)
(***************************************************************************)
\* the children the parameter of the scenario family may carry, by field
ComParamContents ==
    LET mults == { <<>>,
                   <<TextElem("LOWER-MULTIPLICITY", "1"), TextElem("UPPER-MULTIPLICITY", "1")>>,
                   <<TextElem("LOWER-MULTIPLICITY", "0"), TextElem("UPPER-MULTIPLICITY", "1")>>,
                   <<TextElem("UPPER-MULTIPLICITY", "*")>> }
        defaults == { <<>>, <<TextElem("DEFAULT-VALUE", "0.01")>>,
                      <<TextElem("DEFAULT-VALUE", " 0.01\n")>> }
        descs == { <<>>, <<DescElem("EN", "Period of the main function")>> }
        limits == { <<>>, <<TextElem("MIN", "0")>> }
        lits == { <<>>, <<EnumLiterals(<<"ON">>)>> }
    IN  {m \o d \o e \o l \o t : m \in mults, d \in defaults, e \in descs,
                                 l \in limits, t \in lits}

\* what the container ComConfig holds besides the parameter's group
ComContainerExtras ==
    { <<>>,
      Group("REFERENCES", <<Def("ECUC-REFERENCE-DEF", "ComRef", <<>>)>>),
      Group("SUB-CONTAINERS", <<ContainerDef("ComSignal", <<>>)>>) }

ComFamily ==
    { WellFormed(Elem("AUTOSAR", "",
          <<Elem("AR-PACKAGES", "",
              <<Elem("ECUC-MODULE-DEF", "",
                  <<TextElem("SHORT-NAME", "Com"), DescElem("EN", "Communication")>>
                  \o <<Elem(grouping, "",
                         <<ContainerDef("ComConfig",
                               Group("PARAMETERS",
                                     <<Def(tag, "ComMainFunctionPeriod", content)>> \o more)
                               \o extras)>>)>>)>>)>>)) :
        grouping \in {"CONTAINERS"},
        tag \in {"ECUC-BOOLEAN-PARAM-DEF", "ECUC-FLOAT-PARAM-DEF"},
        content \in ComParamContents,
        more \in {<<>>, <<BoolParam("ComDevError")>>},
        extras \in ComContainerExtras }

\* documents around the end-to-end scenario
SpecCom == InitOn({"Com_ParamDef.arxml"}, ComFamily) /\ [][Next]_vars

(***************************************************************************)
(* Keyword lookups over the parameter-definition files of the workspace    *)
(* (src/paramdef_utils.py, src/generic_utils.py)                           *)
(***************************************************************************)
\* most files in the workspace
MaxFiles == 2
\* most keys the matcher scores at or above its cutoff in one lookup
MaxHits == 2

UpperCase == "ABCDEFGHIJKLMNOPQRSTUVWXYZ"

LowerCase == "abcdefghijklmnopqrstuvwxyz"

\* the ASCII characters a string of the model may hold, in code-point order:
\* 0x01 to 0x7F (the backquote cannot be written in a string of the model)
CodeOrder ==
    "" \o SubSeq(AsciiWhiteSpace, 1, 5) \o ""
    \o SubSeq(AsciiWhiteSpace, 6, 10) \o "!\"#$%&'()*+,-./0123456789:;<=>?@" \o UpperCase
    \o "[\\]^_" \o LowerCase \o "{|}~"

\* the position of the one-character string c in s, 0 when it is not there
IndexIn(s, c) ==
    IF Contains(s, c) THEN Min(Occurrences(s, c)) ELSE 0

RECURSIVE Lower(_)
\* str.lower()
Lower(s) ==
    IF Len(s) = 0 THEN ""
    ELSE LET c == CharAt(s, 1)
             i == IndexIn(UpperCase, c)
         IN  (IF i > 0 THEN CharAt(LowerCase, i) ELSE c) \o Lower(Tail(s))

RECURSIVE StrLess(_, _)
\* a < b for str
StrLess(a, b) ==
    IF Len(b) = 0 THEN FALSE
    ELSE IF Len(a) = 0 THEN TRUE
    ELSE LET x == IndexIn(CodeOrder, CharAt(a, 1))
             y == IndexIn(CodeOrder, CharAt(b, 1))
         IN  IF x # y THEN x < y ELSE StrLess(Tail(a), Tail(b))

\* convert_arxml_to_json(paramdef): the conversion of a document path to the
\* compact JSON, or the exception that leaves it
convert_arxml_to_json(ns, document) ==
    LET r == parse_arxml_file(ns, document)
    IN  [raised |-> r.raised,
         data |-> IF r.raised THEN JDict(<<>>) ELSE generate_json(r.module)]

RECURSIVE get_keys(_)
\* get_keys(data): every key of every dict of data
get_keys(data) ==
    IF data.j = "dict"
    THEN UNION {{data.v[i][1]} \cup get_keys(data.v[i][2]) : i \in 1..Len(data.v)}
    ELSE IF data.j = "list"
    THEN UNION {get_keys(data.v[i]) : i \in 1..Len(data.v)}
    ELSE {}

RECURSIVE find_path_KeyAlone(_, _, _)
\* find_path returning the matched key without the keys above it: the fault
\* C14 rules out
find_path_KeyAlone(data, target_key, path) ==
    IF Len(data.v) = 0 THEN <<>>
    ELSE LET key == data.v[1][1]
             value == data.v[1][2]
             rest == find_path_KeyAlone(JDict(Tail(data.v)), target_key, path)
         IN  IF Lower(key) = Lower(target_key) THEN <<<<key>>>>
             ELSE IF value.j = "dict"
             THEN LET result == find_path_KeyAlone(value, target_key, path)
                  IN  IF Len(result) > 0 THEN result ELSE rest
             ELSE rest

RECURSIVE find_path(_, _, _)
\* find_path(data, target_key, path): <<the path>>, or <<>> for None
find_path(data, target_key, path) ==
    IF Len(data.v) = 0 THEN <<>>
    ELSE LET key == data.v[1][1]
             value == data.v[1][2]
             new_path == Append(path, key)
             rest == find_path(JDict(Tail(data.v)), target_key, path)
         IN  IF Lower(key) = Lower(target_key) THEN <<new_path>>
             ELSE IF value.j = "dict"
             THEN LET result == find_path(value, target_key, new_path)
                  IN  IF Len(result) > 0 THEN result ELSE rest
             ELSE rest

RECURSIVE Join(_, _)
\* sep.join(parts)
Join(parts, sep) ==
    IF Len(parts) = 0 THEN ""
    ELSE IF Len(parts) = 1 THEN parts[1]
    ELSE parts[1] \o sep \o Join(Tail(parts), sep)

\* the key (-score, match) of the two sorts: a sorts before b
ByScoreThenMatch(a, b) ==
    \/ a.score > b.score
    \/ a.score = b.score /\ StrLess(a.match, b.match)

\* the order of heapq.nlargest over (ratio, word): a comes before b
ByRatioThenWordDescending(a, b) ==
    \/ a.score > b.score
    \/ a.score = b.score /\ StrLess(b.match, a.match)

RECURSIVE SortedByScore(_)
\* sorted(records, key=lambda x: (-score, match)): stable
SortedByScore(records) ==
    IF Len(records) = 0 THEN <<>>
    ELSE LET front == SortedByScore(SubSeq(records, 1, Len(records) - 1))
             x == records[Len(records)]
             later == {i \in 1..Len(front) : ByScoreThenMatch(x, front[i])}
             at == IF later = {} THEN Len(front) + 1 ELSE Min(later)
         IN  SubSeq(front, 1, at - 1) \o <<x>> \o SubSeq(front, at, Len(front))

RECURSIVE ListOrders(_)
\* list(S) for a set S of strings: the set yields its strings in an order
\* their hashes decide, anew in every interpreter, so every order of S is a
\* list the call may give
ListOrders(S) ==
    IF S = {} THEN {<<>>}
    ELSE UNION {{<<x>> \o rest : rest \in ListOrders(S \ {x})} : x \in S}

\* the number of results a matcher is asked for (DIFFLIB_NUMBER_OF_RESULTS,
\* RAPIDFUZZ_NUMBER_OF_RESULTS of sie_settings)
NUMBER_OF_RESULTS == 5

\* the keys at or above the cutoff, in the order the list of the keys holds
\* them, paired with the score the matcher gives them; scoring maps the keys
\* at or above the cutoff to their score in percent
Scored(hits, scoring) ==
    [i \in 1..Len(hits) |-> [match |-> hits[i], score |-> scoring[hits[i]]]]

RECURSIVE BestFirst(_)
\* the order of the results of process.extract: best score first, equal
\* scores in the order of the list
BestFirst(records) ==
    IF Len(records) = 0 THEN <<>>
    ELSE LET front == BestFirst(SubSeq(records, 1, Len(records) - 1))
             x == records[Len(records)]
             later == {i \in 1..Len(front) : x.score > front[i].score}
             at == IF later = {} THEN Len(front) + 1 ELSE Min(later)
         IN  SubSeq(front, 1, at - 1) \o <<x>> \o SubSeq(front, at, Len(front))

\* get_close_matches_rapidfuzz(keyword, keys, n, cutoff): the matches
\* process.extract gives, at most n of those at or above the cutoff, sorted by
\* (-score, match); hits are the keys at or above the cutoff in list order
get_close_matches_rapidfuzz(hits, scoring, n) ==
    LET found == BestFirst(Scored(hits, scoring))
    IN  SortedByScore(SubSeq(found, 1, Min({n, Len(found)})))

RECURSIVE SortedByRatio(_)
\* heapq.nlargest over the pairs (ratio, word) of a set of words: best first,
\* whatever the order the set yields them in
SortedByRatio(records) ==
    IF records = {} THEN <<>>
    ELSE LET x == CHOOSE y \in records :
                      \A z \in records : y = z \/ ByRatioThenWordDescending(y, z)
         IN  <<x>> \o SortedByRatio(records \ {x})

\* difflib.get_close_matches(keyword, keys, n, cutoff): the words at or above
\* the cutoff, the n best by (ratio, word), best first
get_close_matches(keys, scoring, n) ==
    LET found == SortedByRatio({[match |-> k, score |-> scoring[k]] :
                                   k \in keys \cap DOMAIN scoring})
    IN  [i \in 1..Min({n, Len(found)}) |-> found[i].match]

\* the outcome of a loop over the files: the conversions called, in order,
\* the entries collected, and whether an exception left the loop
LoopOutcome(raised, calls, entries) ==
    [raised |-> raised, calls |-> calls, entries |-> entries]

\* the outcome of one pass followed by the passes over the later files
Then(calls, entries, rest) ==
    LoopOutcome(rest.raised, calls \o rest.calls, entries \o rest.entries)

\* the loop of get_definition without its try / except: the fault C13 rules
\* out
RECURSIVE DefinitionLoop_Uncaught(_, _, _, _)
DefinitionLoop_Uncaught(files, scoring, ns, orders) ==
    IF Len(files) = 0 THEN LoopOutcome(FALSE, <<>>, <<>>)
    ELSE LET paramdef == Head(files)
             c == convert_arxml_to_json(ns, paramdef.doc)
             close_matches ==
                 get_close_matches_rapidfuzz(Head(orders), scoring, NUMBER_OF_RESULTS)
         IN  IF c.raised
             THEN LoopOutcome(TRUE, <<paramdef.path>>, <<>>)
             ELSE Then(<<paramdef.path>>,
                       [i \in 1..Len(close_matches) |->
                           [file |-> paramdef.path, match |-> close_matches[i].match,
                            score |-> close_matches[i].score]],
                       DefinitionLoop_Uncaught(Tail(files), scoring, ns, Tail(orders)))

\* the loop of get_definition (lines 71-87): an entry [file, match, score]
\* per close match, score in percent standing for score / 100.0; orders holds
\* for each file the keys at or above the cutoff as list(get_keys(data))
\* orders them
RECURSIVE DefinitionLoop(_, _, _, _)
DefinitionLoop(files, scoring, ns, orders) ==
    IF Len(files) = 0 THEN LoopOutcome(FALSE, <<>>, <<>>)
    ELSE LET paramdef == Head(files)
             c == convert_arxml_to_json(ns, paramdef.doc)
             close_matches ==
                 get_close_matches_rapidfuzz(Head(orders), scoring, NUMBER_OF_RESULTS)
             rest == DefinitionLoop(Tail(files), scoring, ns, Tail(orders))
         IN  IF c.raised
             THEN Then(<<paramdef.path>>, <<>>, rest)
             ELSE Then(<<paramdef.path>>,
                       [i \in 1..Len(close_matches) |->
                           [file |-> paramdef.path, match |-> close_matches[i].match,
                            score |-> close_matches[i].score]],
                       rest)

\* get_definition(keyword): None without files, else the sorted matches
get_definition(files, scoring, ns, orders) ==
    IF Len(files) = 0
    THEN [raised |-> FALSE, calls |-> <<>>, none |-> TRUE, entries |-> <<>>]
    ELSE LET loop == DefinitionLoop(files, scoring, ns, orders)
         IN  [raised |-> loop.raised, calls |-> loop.calls, none |-> FALSE,
              entries |-> SortedByScore(loop.entries)]

\* the entries of one file in get_definition_path_difflib (lines 131-141)
DifflibPaths(paramdef, data, scoring) ==
    LET close_matches == get_close_matches(get_keys(data), scoring, NUMBER_OF_RESULTS)
        found == SelectSeq(close_matches, LAMBDA match : Len(find_path(data, match, <<>>)) > 0)
    IN  [i \in 1..Len(found) |->
            [file |-> paramdef.path,
             definition_path |-> Join(find_path(data, found[i], <<>>)[1], "/")]]

\* the loop of get_definition_path_difflib (lines 123-141)
RECURSIVE PathLoopDifflib(_, _, _)
PathLoopDifflib(files, scoring, ns) ==
    IF Len(files) = 0 THEN LoopOutcome(FALSE, <<>>, <<>>)
    ELSE LET paramdef == Head(files)
             c == convert_arxml_to_json(ns, paramdef.doc)
             rest == PathLoopDifflib(Tail(files), scoring, ns)
         IN  IF c.raised
             THEN Then(<<paramdef.path>>, <<>>, rest)
             ELSE Then(<<paramdef.path>>, DifflibPaths(paramdef, c.data, scoring), rest)

\* get_definition_path_difflib(keyword)
get_definition_path_difflib(files, scoring, ns) ==
    LET loop == PathLoopDifflib(files, scoring, ns)
    IN  [raised |-> loop.raised, calls |-> loop.calls, none |-> FALSE,
         entries |-> loop.entries]

\* the entries of one file in get_definition_path_rapidfuzz (lines 160-176)
RapidfuzzPaths(paramdef, data, scoring, order) ==
    LET close_matches ==
            get_close_matches_rapidfuzz(order, scoring, NUMBER_OF_RESULTS)
        found == SelectSeq(close_matches,
                           LAMBDA m : Len(find_path(data, m.match, <<>>)) > 0)
    IN  [i \in 1..Len(found) |->
            [file |-> paramdef.path,
             definition_path |-> Join(find_path(data, found[i].match, <<>>)[1], "/"),
             similarity_score |-> found[i].score]]

\* the loop of get_definition_path_rapidfuzz (lines 153-176)
RECURSIVE PathLoopRapidfuzz(_, _, _, _)
PathLoopRapidfuzz(files, scoring, ns, orders) ==
    IF Len(files) = 0 THEN LoopOutcome(FALSE, <<>>, <<>>)
    ELSE LET paramdef == Head(files)
             c == convert_arxml_to_json(ns, paramdef.doc)
             rest == PathLoopRapidfuzz(Tail(files), scoring, ns, Tail(orders))
         IN  IF c.raised
             THEN Then(<<paramdef.path>>, <<>>, rest)
             ELSE Then(<<paramdef.path>>,
                       RapidfuzzPaths(paramdef, c.data, scoring, Head(orders)), rest)

\* get_definition_path_rapidfuzz(keyword)
get_definition_path_rapidfuzz(files, scoring, ns, orders) ==
    LET loop == PathLoopRapidfuzz(files, scoring, ns, orders)
    IN  [raised |-> loop.raised, calls |-> loop.calls, none |-> FALSE,
         entries |-> loop.entries]

\* the files of a workspace: two that convert, one that is not well formed,
\* one without a root
WorkspaceFiles ==
    { [path |-> "ws/Com_ParamDef.arxml",
       doc |-> WellFormed(Elem("AUTOSAR", "", <<ModuleDef("Com")>>))],
      [path |-> "ws/bsw/NvM_paramdef.arxml",
       doc |-> WellFormed(Elem("AUTOSAR", "",
                   <<Elem("ECUC-MODULE-DEF", "",
                        <<TextElem("SHORT-NAME", "NvM"),
                          Elem("CONTAINERS", "", <<ContainerDef("ComGeneral", <<>>)>>)>>)>>))],
      [path |-> "ws/Bad_ParamDef.arxml",
       doc |-> Malformed("mismatched tag: line 7, column 4")],
      [path |-> "ws/Empty_ParamDef.arxml",
       doc |-> WellFormed(Elem("AUTOSAR", "", <<>>))] }

\* the lists get_all_paramdef_files may return: distinct files, any order
FileLists ==
    {fs \in SeqsUpTo(WorkspaceFiles, MaxFiles) :
        \A i, k \in 1..Len(fs) : i # k => fs[i] # fs[k]}

\* the keys of the files that convert
KeysOfFiles(files) ==
    UNION {get_keys(convert_arxml_to_json(ParserNs, files[i].doc).data) : i \in 1..Len(files)}

\* what a matcher may make of a keyword: at most MaxHits of the keys at or
\* above the cutoff, each with a score in percent
Scorings(keys) ==
    UNION {[hits -> {60, 100}] : hits \in {h \in SUBSET keys : Cardinality(h) <= MaxHits}}

Keywords == {"General"}

RECURSIVE HitOrders(_, _, _)
\* what keys = list(get_keys(data)) may make of the files of a lookup: for
\* each file in turn an order of its keys at or above the cutoff (the matcher
\* passes over the other keys of the list), none for a file that does not
\* convert
HitOrders(files, scoring, ns) ==
    IF Len(files) = 0 THEN {<<>>}
    ELSE LET keys == get_keys(convert_arxml_to_json(ns, Head(files).doc).data)
         IN  {<<order>> \o rest :
                 order \in ListOrders(keys \cap DOMAIN scoring),
                 rest \in HitOrders(Tail(files), scoring, ns)}

InitLookup ==
    /\ file_path = ""
    /\ doc = NoDocument
    /\ phase = "start"
    /\ module = NoModule
    /\ exc = NoException
    /\ json_compact = <<>>
    /\ json_descriptive = <<>>
    /\ parser_ns = ParserNs
    /\ pending = <<>>
    /\ tree_simple = <<>>
    /\ tree_detailed = <<>>
    /\ paramdefs \in FileLists
    /\ keyword \in Keywords
    /\ lookup = NoLookup
    /\ search_key = ""
    /\ path_found = <<>>
    /\ SrvIdle
    /\ ObjIdle

\* the record of a lookup that returned or raised
LookupOf(fn, scoring, orders, outcome) ==
    [fn |-> fn, scoring |-> scoring, orders |-> orders, raised |-> outcome.raised,
     calls |-> outcome.calls, none |-> outcome.none, entries |-> outcome.entries]

\* the model follows one lookup per workspace: each action is enabled while no
\* lookup was made
lookup_frame == <<conv_vars, parser_ns, pending, tree_simple, tree_detailed,
                  paramdefs, keyword, search_key, path_found, srv_vars, obj_vars>>

\* get_definition(keyword)
GetDefinition ==
    /\ lookup = NoLookup
    /\ \E scoring \in Scorings(KeysOfFiles(paramdefs)) :
           \E orders \in HitOrders(paramdefs, scoring, ParserNs) :
               lookup' = LookupOf("get_definition", scoring, orders,
                                  get_definition(paramdefs, scoring, ParserNs, orders))
    /\ UNCHANGED lookup_frame

\* get_definition_path_difflib(keyword)
GetDefinitionPathDifflib ==
    /\ lookup = NoLookup
    /\ \E scoring \in Scorings(KeysOfFiles(paramdefs)) :
           lookup' = LookupOf("get_definition_path_difflib", scoring, <<>>,
                              get_definition_path_difflib(paramdefs, scoring, ParserNs))
    /\ UNCHANGED lookup_frame

\* get_definition_path_rapidfuzz(keyword)
GetDefinitionPathRapidfuzz ==
    /\ lookup = NoLookup
    /\ \E scoring \in Scorings(KeysOfFiles(paramdefs)) :
           \E orders \in HitOrders(paramdefs, scoring, ParserNs) :
               lookup' = LookupOf("get_definition_path_rapidfuzz", scoring, orders,
                                  get_definition_path_rapidfuzz(paramdefs, scoring,
                                                                ParserNs, orders))
    /\ UNCHANGED lookup_frame

NextLookup ==
    \/ GetDefinition
    \/ GetDefinitionPathDifflib
    \/ GetDefinitionPathRapidfuzz

\* keyword lookups over the files of a workspace
SpecLookup == InitLookup /\ [][NextLookup]_vars

\* find_path(data, key) for a key that get_keys(data) collected, data the
\* compact JSON of the conversion
FindPath ==
    /\ phase = "converted"
    /\ \E key \in get_keys(json_compact[1]) :
           /\ search_key' = key
           /\ path_found' = <<find_path(json_compact[1], key, <<>>)>>
    /\ UNCHANGED <<conv_vars, parser_ns, pending, tree_simple, tree_detailed,
                   paramdefs, keyword, lookup, srv_vars, obj_vars>>

NextSearch ==
    \/ ConvertParamdefToJson
    \/ FindPath

\* documents whose keys repeat across levels or differ in case only
SearchFamily ==
    { ModuleOf("Mod", <<ContainerDef("Top",
          Group("PARAMETERS", ps) \o Group("SUB-CONTAINERS", ss))>>) :
        ps \in SeqsUpTo(ParamElems, 1), ss \in SeqsUpTo(SubElems, MaxKids) }
    \cup
    { ModuleOf(" Mod ", <<a, b>>) : a \in TopElems, b \in TopElems }

\* the keys of the compact JSON of a document and the paths to them
SpecSearch == InitOn({"Mod_ParamDef.arxml"}, SearchFamily) /\ [][NextSearch]_vars

(***************************************************************************)
(* The tree renderer: SimpleTreeGenerator (lines 361-472).  The            *)
(* line-drawing glyphs and the two pictographs of the source (each stored  *)
(* there as the Windows-1252 reading of its UTF-8 bytes) are written here   *)
(* in ASCII, one string for each; the comments name the intended glyph.    *)
(***************************************************************************)
\* U+2514 U+2500 U+2500 and a space
LAST_BRANCH == "+-- "
\* U+251C U+2500 U+2500 and a space
MID_BRANCH == "|-- "
\* U+2502 and three spaces
RULE == "|   "
\* U+2514 U+2500 and a space
LAST_NOTE == "+- "
\* U+251C U+2500 and a space
MID_NOTE == "|- "
\* U+1F4CA and a space: the mark of a parameter line
PARAM_MARK == "#P "
\* U+1F517 and a space: the mark of a reference line
REF_MARK == "#R "
\* U+2192 and a space
ARROW == "-> "

\* seq[:n]
Take(seq, n) == SubSeq(seq, 1, Min({n, Len(seq)}))

\* the decimal digits of a natural number: str(n)
RECURSIVE NatToStr(_)
NatToStr(n) ==
    IF n < 10 THEN CharAt("0123456789", n + 1)
    ELSE NatToStr(n \div 10) \o CharAt("0123456789", (n % 10) + 1)

\* _add_parameter_to_tree: the lines with those of the parameter appended
_add_parameter_to_tree(lines, param, prefix, is_last, include_details) ==
    LET current_prefix == IF is_last THEN LAST_BRANCH ELSE MID_BRANCH
        base == param.name \o " [" \o param.param_type \o "] " \o param.multiplicity
        with_default == IF include_details /\ param.default_value # ""
                        THEN base \o " = " \o param.default_value ELSE base
        param_info == IF include_details /\ (param.min_value # "" \/ param.max_value # "")
                      THEN with_default \o " (" \o param.min_value \o ".."
                           \o param.max_value \o ")"
                      ELSE with_default
        next_prefix == prefix \o (IF is_last THEN "    " ELSE RULE)
        values_text == Join(Take(param.literals, 5), ", ")
                       \o (IF Len(param.literals) > 5 THEN "..." ELSE "")
    IN  lines
        \o <<prefix \o current_prefix \o PARAM_MARK \o param_info>>
        \o (IF include_details /\ param.description # ""
            THEN <<next_prefix \o LAST_NOTE \o param.description>> ELSE <<>>)
        \o (IF include_details /\ Len(param.literals) > 0
            THEN <<next_prefix \o LAST_NOTE \o "Values: " \o values_text>> ELSE <<>>)

\* the lines of the first three destinations of a reference
DestinationLines(ref, next_prefix) ==
    LET shown == Take(ref.destinations, 3)
    IN  [i \in 1..Len(shown) |->
            LET dest == shown[i]
                dest_short == IF Contains(dest, "/") THEN Last(Split(dest, "/")) ELSE dest
                is_last_dest == i = Len(shown) /\ Len(ref.destinations) <= 3
            IN  next_prefix \o (IF is_last_dest THEN "+-" ELSE "|-") \o " " \o ARROW
                \o dest_short]

\* _add_reference_to_tree: the lines with those of the reference appended
_add_reference_to_tree(lines, ref, prefix, is_last, include_details) ==
    LET current_prefix == IF is_last THEN LAST_BRANCH ELSE MID_BRANCH
        ref_info == ref.name \o " [" \o ref.ref_type \o "] " \o ref.multiplicity
        next_prefix == prefix \o (IF is_last THEN "    " ELSE RULE)
    IN  lines
        \o <<prefix \o current_prefix \o REF_MARK \o ref_info>>
        \o (IF include_details /\ ref.description # ""
            THEN <<next_prefix \o MID_NOTE \o ref.description>> ELSE <<>>)
        \o (IF include_details THEN DestinationLines(ref, next_prefix) ELSE <<>>)
        \o (IF include_details /\ Len(ref.destinations) > 3
            THEN <<next_prefix \o LAST_NOTE \o "... and "
                   \o NatToStr(Len(ref.destinations) - 3) \o " more">>
            ELSE <<>>)

RECURSIVE ParameterLoop_LastOfItsKind(_, _, _, _, _, _)
\* the loop over the parameters taking the last parameter for the last
\* child: the fault C21 rules out
ParameterLoop_LastOfItsKind(lines, params, prefix, done, total_items, include_details) ==
    IF Len(params) = 0 THEN lines
    ELSE ParameterLoop_LastOfItsKind(
             _add_parameter_to_tree(lines, Head(params), prefix, Len(params) = 1,
                                    include_details),
             Tail(params), prefix, done + 1, total_items, include_details)

RECURSIVE ParameterLoop(_, _, _, _, _, _)
\* for param in container.parameters (lines 413-416); done is current_item
\* before the loop
ParameterLoop(lines, params, prefix, done, total_items, include_details) ==
    IF Len(params) = 0 THEN lines
    ELSE ParameterLoop(
             _add_parameter_to_tree(lines, Head(params), prefix, done + 1 = total_items,
                                    include_details),
             Tail(params), prefix, done + 1, total_items, include_details)

RECURSIVE ReferenceLoop(_, _, _, _, _, _)
\* for ref in container.references (lines 419-422)
ReferenceLoop(lines, refs, prefix, done, total_items, include_details) ==
    IF Len(refs) = 0 THEN lines
    ELSE ReferenceLoop(
             _add_reference_to_tree(lines, Head(refs), prefix, done + 1 = total_items,
                                    include_details),
             Tail(refs), prefix, done + 1, total_items, include_details)

RECURSIVE _add_container_to_tree(_, _, _, _, _)
RECURSIVE ContainerLoop(_, _, _, _, _, _)
\* for sub_container in container.sub_containers (lines 425-428)
ContainerLoop(lines, subs, prefix, done, total_items, include_details) ==
    IF Len(subs) = 0 THEN lines
    ELSE ContainerLoop(
             _add_container_to_tree(lines, Head(subs), prefix, done + 1 = total_items,
                                    include_details),
             Tail(subs), prefix, done + 1, total_items, include_details)

\* _add_container_to_tree: the lines with those of the container appended
_add_container_to_tree(lines, container, prefix, is_last, include_details) ==
    LET current_prefix == IF is_last THEN LAST_BRANCH ELSE MID_BRANCH
        next_prefix == prefix \o (IF is_last THEN "    " ELSE RULE)
        total_items == Len(container.parameters) + Len(container.references)
                       + Len(container.sub_containers)
        head == lines
                \o <<prefix \o current_prefix \o container.name \o " ["
                     \o container.container_type \o "] " \o container.multiplicity>>
                \o (IF container.description # ""
                    THEN <<next_prefix \o LAST_NOTE \o container.description>> ELSE <<>>)
                \o (IF include_details /\ Len(container.config_classes) > 0
                    THEN <<next_prefix \o MID_NOTE \o "Config: "
                           \o Join(container.config_classes, ", ")>>
                    ELSE <<>>)
        with_params == ParameterLoop(head, container.parameters, next_prefix, 0,
                                     total_items, include_details)
        with_refs == ReferenceLoop(with_params, container.references, next_prefix,
                                   Len(container.parameters), total_items, include_details)
    IN  ContainerLoop(with_refs, container.sub_containers, next_prefix,
                      Len(container.parameters) + Len(container.references),
                      total_items, include_details)

RECURSIVE TopContainerLoop(_, _, _, _)
\* for i, container in enumerate(self.module.containers) of both generators:
\* is_last holds for the last container
TopContainerLoop(lines, containers, prefix, include_details) ==
    IF Len(containers) = 0 THEN lines
    ELSE TopContainerLoop(
             _add_container_to_tree(lines, Head(containers), prefix,
                                    Len(containers) = 1, include_details),
             Tail(containers), prefix, include_details)

\* generate_simple_tree (lines 367-377)
generate_simple_tree(mod) ==
    Join(TopContainerLoop(<<mod.name \o " [MODULE]", LAST_NOTE \o mod.description>>,
                          mod.containers, "", FALSE),
         "\n")

\* generate_detailed_tree (lines 379-392)
generate_detailed_tree(mod) ==
    Join(TopContainerLoop(<<mod.name \o " [MODULE]",
                            LAST_NOTE \o mod.description,
                            "   " \o MID_NOTE \o "Category: " \o mod.category,
                            "   " \o MID_NOTE \o "Version: " \o mod.version>>,
                          mod.containers, "    ", TRUE),
         "\n")

\* SimpleTreeGenerator(module).generate_simple_tree()
GenerateSimpleTree ==
    /\ phase = "parsed"
    /\ tree_simple' = <<generate_simple_tree(module)>>
    /\ UNCHANGED <<conv_vars, parser_ns, pending, tree_detailed, paramdefs, keyword,
                   lookup, search_key, path_found, srv_vars,
                   obj_vars>>

\* SimpleTreeGenerator(module).generate_detailed_tree()
GenerateDetailedTree ==
    /\ phase = "parsed"
    /\ tree_detailed' = <<generate_detailed_tree(module)>>
    /\ UNCHANGED <<conv_vars, parser_ns, pending, tree_simple, paramdefs, keyword,
                   lookup, search_key, path_found, srv_vars,
                   obj_vars>>

\* the children a PARAMETERS group of the shape family may hold: an integer
\* parameter that carries literals, an enumeration with six literals
ShapeParams ==
    { Def("ECUC-INTEGER-PARAM-DEF", "Size",
          <<TextElem("DEFAULT-VALUE", "8"), TextElem("MIN", "0"), TextElem("MAX", "255"),
            EnumLiterals(<<"LOW", "HIGH">>)>>),
      Def("ECUC-ENUMERATION-PARAM-DEF", "Mode",
          <<DescElem("EN", "Operating mode"),
            EnumLiterals(<<"A", "B", "C", "D", "E", "F">>)>>) }

ShapeRefs ==
    { Def("ECUC-REFERENCE-DEF", "PduRef",
          <<DescElem("EN", "The PDU"), TextElem("DESTINATION-REF", "/Pkg/Com/Pdu")>>),
      Def("ECUC-FOREIGN-REFERENCE-DEF", "Sys", <<>>) }

\* the children a SUB-CONTAINERS group of the shape family may hold: a
\* container whose CHOICES group precedes its SUB-CONTAINERS group, and an
\* element with the tag of a choice container
ShapeSubs ==
    { ContainerDef("Inner",
          <<DescElem("EN", "Inner settings")>>
          \o Group("CHOICES", <<ContainerDef("Deep", <<>>)>>)
          \o Group("SUB-CONTAINERS", <<ChoiceContainerDef("Nest", <<>>)>>)
          \o Group("PARAMETERS", <<BoolParam("On")>>)),
      ChoiceContainerDef("Pick", <<>>) }

ShapeChoices ==
    { ContainerDef("Alt", Group("SUB-CONTAINERS", <<ContainerDef("AltSub", <<>>)>>)) }

\* the groups of a container in the order of the layout
GroupsInOrder(layout, kids) ==
    IF Len(layout) = 0 THEN <<>>
    ELSE Group(layout[1], kids[layout[1]])
         \o (IF Len(layout) = 1 THEN <<>>
             ELSE Group(layout[2], kids[layout[2]])
                  \o (IF Len(layout) = 2 THEN <<>>
                      ELSE Group(layout[3], kids[layout[3]])
                           \o (IF Len(layout) = 3 THEN <<>>
                               ELSE Group(layout[4], kids[layout[4]]))))

ShapeLayouts ==
    { <<"PARAMETERS", "REFERENCES", "SUB-CONTAINERS", "CHOICES">>,
      <<"CHOICES", "SUB-CONTAINERS", "REFERENCES", "PARAMETERS">> }

\* documents of one container whose four groups come in either order
ShapeFamily ==
    { ModuleOf("Mod", <<ContainerDef("Top",
          GroupsInOrder(layout,
              [g \in {"PARAMETERS", "REFERENCES", "SUB-CONTAINERS", "CHOICES"} |->
                  CASE g = "PARAMETERS" -> ps
                    [] g = "REFERENCES" -> rs
                    [] g = "SUB-CONTAINERS" -> ss
                    [] g = "CHOICES" -> cs]))>>) :
        layout \in ShapeLayouts,
        ps \in SeqsUpTo(ShapeParams, MaxKids),
        rs \in SeqsUpTo(ShapeRefs, 1),
        ss \in SeqsUpTo(ShapeSubs, 1),
        cs \in SeqsUpTo(ShapeChoices, 1) }

NextRender ==
    \/ ParseArxmlFile
    \/ GenerateJson
    \/ GenerateJsonDescriptive
    \/ GenerateSimpleTree
    \/ GenerateDetailedTree

\* the renderer and the projections over documents of the shape family
SpecRender == InitOn({"Mod_ParamDef.arxml"}, ShapeFamily) /\ [][NextRender]_vars

(***************************************************************************)
(* A session: one parser object, the Modules it returned and the           *)
(* renderings and projections of any of them, in any order.  The objects   *)
(* of the session are kept in a store, in the order they were created; a   *)
(* reference to an object is its index in the store.  Strings are values.  *)
(***************************************************************************)
\* how many renderings and projections one session makes
MaxOps == 3

\* []
EmptyList == [cls |-> "list", items |-> <<>>]

\* F of v, with v worked out once, before F uses it: the statements of a
\* method run one after the other
Given(v, F(_)) == CHOOSE y \in {F(x) : x \in {v}} : TRUE

\* for v in values: list.append(v)
AppendAll(h, list, values) == [h EXCEPT ![list].items = @ \o values]

\* a data class whose Parameters share one list of literals, as a default
\* list would be shared: the fault C16 rules out
Construct_SharedLiterals(h, fields, lists) ==
    LET at == Len(h) + 1
        earlier == {a \in DOMAIN h : h[a].cls = "Parameter"}
        own == [f \in DOMAIN fields \cup {lists[i] : i \in 1..Len(lists)} |->
                   IF f \in DOMAIN fields THEN fields[f]
                   ELSE at + (CHOOSE i \in 1..Len(lists) : lists[i] = f)]
    IN  IF fields.cls = "Parameter" /\ earlier # {}
        THEN [heap |-> Append(h, [own EXCEPT !["literals"] = h[Min(earlier)].literals]),
              at |-> at]
        ELSE [heap |-> h \o <<own>> \o [i \in 1..Len(lists) |-> EmptyList], at |-> at]

\* Parameter(...), Reference(...), Container(...) or Module(...) with the
\* list fields left at None: the object gets the fields given, and
\* __post_init__ gives each list field a list of its own (lines 19-84)
Construct(h, fields, lists) ==
    LET at == Len(h) + 1
        own == [f \in DOMAIN fields \cup {lists[i] : i \in 1..Len(lists)} |->
                   IF f \in DOMAIN fields THEN fields[f]
                   ELSE at + (CHOOSE i \in 1..Len(lists) : lists[i] = f)]
    IN  [heap |-> h \o <<own>> \o [i \in 1..Len(lists) |-> EmptyList], at |-> at]

\* SimpleARXMLParser(): the object and the dict its ns refers to
SimpleARXMLParser(h) ==
    [heap |-> h \o <<[cls |-> "dict", items |-> <<<<"ar", AR_NS>>>>],
                     [cls |-> "SimpleARXMLParser", ns |-> Len(h) + 1]>>,
     at |-> Len(h) + 2]

\* _parse_parameter: the Parameter is constructed, then the literal names
\* are appended to its list
Obj_parse_parameter(h, param_elem, ns) ==
    Given(Construct(h,
              [cls |-> "Parameter",
               name |-> _get_text(param_elem, ns, "SHORT-NAME", ""),
               param_type |-> ParamTypeMapping(LocalName(param_elem.tag)),
               multiplicity |-> _get_multiplicity(param_elem, ns),
               description |-> _get_text_desc(param_elem, ns),
               default_value |-> _get_text(param_elem, ns, "DEFAULT-VALUE", ""),
               min_value |-> _get_text(param_elem, ns, "MIN", ""),
               max_value |-> _get_text(param_elem, ns, "MAX", "")],
              <<"literals">>), LAMBDA param :
    [heap |-> AppendAll(param.heap, param.heap[param.at].literals,
                        LiteralNames(param_elem, ns)),
     at |-> param.at])

\* _parse_reference: the Reference is constructed, then the destination is
\* appended to its list
Obj_parse_reference(h, ref_elem, ns) ==
    Given(Construct(h,
              [cls |-> "Reference",
               name |-> _get_text(ref_elem, ns, "SHORT-NAME", ""),
               ref_type |-> RefTypeMapping(LocalName(ref_elem.tag)),
               multiplicity |-> _get_multiplicity(ref_elem, ns),
               description |-> _get_text_desc(ref_elem, ns)],
              <<"destinations">>), LAMBDA ref :
    [heap |-> AppendAll(ref.heap, ref.heap[ref.at].destinations,
                        Destinations(ref_elem, ns)),
     at |-> ref.at])

RECURSIVE Obj_parse_container(_, _, _)
RECURSIVE ParseEach(_, _, _, _, _)
\* "for child in elems: x = self._parse_...(child); list.append(x)", with
\* "x.container_type = kind" in between for a sub-container and a choice
ParseEach(h, list, elems, ns, kind) ==
    IF Len(elems) = 0 THEN h
    ELSE Given(Head(elems), LAMBDA child :
         Given(CASE kind = "PARAMETER" -> Obj_parse_parameter(h, child, ns)
                 [] kind = "REFERENCE" -> Obj_parse_reference(h, child, ns)
                 [] OTHER -> Obj_parse_container(h, child, ns), LAMBDA made :
         Given(AppendAll(IF kind \in {"SUB_CONTAINER", "CHOICE_CONTAINER"}
                         THEN [made.heap EXCEPT ![made.at].container_type = kind]
                         ELSE made.heap,
                         list, <<made.at>>), LAMBDA appended :
         ParseEach(appended, list, Tail(elems), ns, kind))))

\* _parse_container (lines 142-180)
Obj_parse_container(h, container_elem, ns) ==
    Given(Construct(h,
              [cls |-> "Container",
               name |-> _get_text(container_elem, ns, "SHORT-NAME", ""),
               container_type |-> "CONTAINER",
               multiplicity |-> _get_multiplicity(container_elem, ns),
               description |-> _get_text_desc(container_elem, ns)],
              <<"config_classes", "parameters", "references", "sub_containers">>),
          LAMBDA made :
    Given(made.heap[made.at], LAMBDA container :
    Given(ParseEach(made.heap, container.parameters,
                    GroupKids(container_elem, ns, "PARAMETERS"), ns, "PARAMETER"),
          LAMBDA h1 :
    Given(ParseEach(h1, container.references,
                    GroupKids(container_elem, ns, "REFERENCES"), ns, "REFERENCE"),
          LAMBDA h2 :
    Given(ParseEach(h2, container.sub_containers,
                    GroupKids(container_elem, ns, "SUB-CONTAINERS"), ns, "SUB_CONTAINER"),
          LAMBDA h3 :
    [heap |-> ParseEach(h3, container.sub_containers,
                        GroupKids(container_elem, ns, "CHOICES"), ns,
                        "CHOICE_CONTAINER"),
     at |-> made.at])))))

\* the Module of module_def: Module(...) of lines 116-121, then the two loops
\* of lines 123-135
Obj_build_module(h, module_def, ns) ==
    Given(Construct(h,
              [cls |-> "Module",
               name |-> _get_text(module_def, ns, "SHORT-NAME", ""),
               description |-> _get_text_desc(module_def, ns),
               category |-> _get_text(module_def, ns, "CATEGORY", ""),
               version |-> _get_text(module_def, ns, "VERSION", "")],
              <<"containers">>), LAMBDA made :
    Given(ParseEach(made.heap, made.heap[made.at].containers,
                    LET g == FindAll(module_def, ns, "SUB-CONTAINERS")
                    IN  IF Len(g) = 0 THEN <<>>
                        ELSE FindAll(Head(g), ns, "ECUC-PARAM-CONF-CONTAINER-DEF"),
                    ns, "CONTAINER"), LAMBDA h1 :
    [heap |-> ParseEach(h1, h1[made.at].containers,
                        LET g == FindAll(module_def, ns, "CONTAINERS")
                        IN  IF Len(g) = 0 THEN <<>>
                            ELSE FindAll(Head(g), ns, "ECUC-PARAM-CONF-CONTAINER-DEF"),
                        ns, "CONTAINER"),
     at |-> made.at]))

\* parser.parse_arxml_file(path) (lines 95-140): the Module and what it
\* refers to are added to the store, or the exception leaves the call; the
\* namespace table is read through self.ns
Obj_parse_arxml_file(h, parser, document) ==
    LET ns == DictGet(h[h[parser].ns].items, "ar")
    IN  IF ~document.well_formed
        THEN [raised |-> TRUE, exc |-> WrapException(document.parse_error),
              heap |-> h, at |-> 0]
        ELSE Given(FindModuleDef(document.root, ns), LAMBDA module_def :
             IF Len(module_def) = 0
             THEN [raised |-> TRUE, exc |-> WrapException(NoRootMessage),
                   heap |-> h, at |-> 0]
             ELSE Given(Obj_build_module(h, Head(module_def), ns), LAMBDA made :
                  [raised |-> FALSE, exc |-> NoException, heap |-> made.heap,
                   at |-> made.at]))

RECURSIVE ObjectAt(_, _)
\* the object as a reader finds it: each field, and behind each list field
\* the items the list holds now
ObjectAt(h, a) ==
    LET o == h[a]
        Each(list) == [i \in 1..Len(h[list].items) |-> ObjectAt(h, h[list].items[i])]
    IN  CASE o.cls = "Parameter" ->
                 [name |-> o.name, param_type |-> o.param_type,
                  multiplicity |-> o.multiplicity, description |-> o.description,
                  default_value |-> o.default_value, min_value |-> o.min_value,
                  max_value |-> o.max_value, literals |-> h[o.literals].items]
          [] o.cls = "Reference" ->
                 [name |-> o.name, ref_type |-> o.ref_type,
                  multiplicity |-> o.multiplicity, description |-> o.description,
                  destinations |-> h[o.destinations].items]
          [] o.cls = "Container" ->
                 [name |-> o.name, container_type |-> o.container_type,
                  multiplicity |-> o.multiplicity, description |-> o.description,
                  config_classes |-> h[o.config_classes].items,
                  parameters |-> Each(o.parameters),
                  references |-> Each(o.references),
                  sub_containers |-> Each(o.sub_containers)]
          [] o.cls = "Module" ->
                 [name |-> o.name, description |-> o.description,
                  category |-> o.category, version |-> o.version,
                  containers |-> Each(o.containers)]

\* SimpleTreeGenerator(module).generate_simple_tree() and
\* .generate_detailed_tree() (lines 362-392): the generator keeps a reference
\* to the Module, the method appends every line to a list of its own and
\* returns the lines joined
SimpleTreeGenerator(h, mod_at, include_details) ==
    LET self == Len(h) + 1
        lines == Len(h) + 2
        created == h \o <<[cls |-> "SimpleTreeGenerator", module |-> mod_at], EmptyList>>
    IN  Given(ObjectAt(created, created[self].module), LAMBDA mod :
        Given(AppendAll(created, lines,
                  TopContainerLoop(
                      <<mod.name \o " [MODULE]", LAST_NOTE \o mod.description>>
                      \o (IF include_details
                          THEN <<"   " \o MID_NOTE \o "Category: " \o mod.category,
                                 "   " \o MID_NOTE \o "Version: " \o mod.version>>
                          ELSE <<>>),
                      mod.containers,
                      IF include_details THEN "    " ELSE "",
                      include_details)), LAMBDA written :
        [heap |-> written, result |-> Join(written[lines].items, "\n")]))

\* JSONGenerator(module).generate_json() of either class (lines 270-287 and
\* 478-489): the generator keeps a reference to the Module and returns dicts
\* and lists it builds; the values under "options", "literals" and
\* "destinations" are the lists of the Module themselves (lines 324, 334,
\* 519, 545), given here with the items they hold when the method returns
JSONGenerator(h, mod_at, descriptive) ==
    LET self == Len(h) + 1
        created == Append(h, [cls |-> "JSONGenerator", module |-> mod_at])
        mod == ObjectAt(created, created[self].module)
    IN  [heap |-> created,
         result |-> IF descriptive THEN generate_json_descriptive(mod)
                    ELSE generate_json(mod)]

SessionRoot(name, top, content) == ModuleOf(name, <<ContainerDef(top, content)>>)

\* the files a session may be given
SessionFiles ==
    LET com == SessionRoot("Com", "ComConfig",
                   Group("PARAMETERS", <<BoolParam("ComEnable")>>)
                   \o Group("REFERENCES",
                          <<Def("ECUC-REFERENCE-DEF", "ComPduRef",
                                <<TextElem("DESTINATION-REF", "/Pkg/EcuC/Pdu")>>)>>))
        nvm == SessionRoot("NvM", "NvMBlock",
                   Group("PARAMETERS",
                         <<Def("ECUC-ENUMERATION-PARAM-DEF", "NvMCrc",
                               <<EnumLiterals(<<"CRC16", "CRC32">>)>>)>>)
                   \o Group("SUB-CONTAINERS", <<ContainerDef("NvMSub", <<>>)>>)
                   \o Group("CHOICES",
                            <<ContainerDef("NvMRam",
                                  Group("PARAMETERS", <<BoolParam("NvMEnable")>>))>>))
    IN  { [path |-> "Com_ParamDef.arxml", document |-> com],
          [path |-> "NvM_ParamDef.arxml", document |-> nvm],
          [path |-> "Com41_ParamDef.arxml",
           document |-> WellFormed(InNamespace(com.root, OTHER_NS))],
          [path |-> "Bad_ParamDef.arxml",
           document |-> Malformed("mismatched tag: line 7, column 4")] }

\* what the caller holds of one call: the operation, the file it is about,
\* the object returned or used, and the outcome
Call(op, path, document, at, raised, exc_, result) ==
    [op |-> op, path |-> path, document |-> document, at |-> at, raised |-> raised,
     exc |-> exc_, result |-> result]

\* a parser object was constructed and is all the caller holds
InitSession ==
    /\ file_path = ""
    /\ doc = NoDocument
    /\ phase = "start"
    /\ module = NoModule
    /\ exc = NoException
    /\ json_compact = <<>>
    /\ json_descriptive = <<>>
    /\ parser_ns = ParserNs
    /\ pending = <<>>
    /\ tree_simple = <<>>
    /\ tree_detailed = <<>>
    /\ paramdefs = <<>>
    /\ keyword = ""
    /\ lookup = NoLookup
    /\ search_key = ""
    /\ path_found = <<>>
    /\ SrvIdle
    /\ LET parser == SimpleARXMLParser(<<>>)
       IN  /\ heap = parser.heap
           /\ held = <<Call("SimpleARXMLParser", "", NoDocument, parser.at, FALSE,
                            NoException, <<>>)>>

session_frame ==
    <<conv_vars, parser_ns, pending, tree_simple, tree_detailed, paramdefs, keyword,
      lookup, search_key, path_found, srv_vars>>

\* the calls that returned a Module
ModulesHeld == {i \in DOMAIN held : held[i].op = "parse_arxml_file" /\ ~held[i].raised}

\* parser.parse_arxml_file(path) on the parser object of the session, for any
\* of the files, whatever was parsed, rendered or projected before
ParseFile ==
    /\ Cardinality({i \in DOMAIN held : held[i].op = "parse_arxml_file"}) < MaxFiles
    /\ \E file \in SessionFiles :
           \E r \in {Obj_parse_arxml_file(heap, held[1].at, file.document)} :
               /\ heap' = r.heap
               /\ held' = Append(held, Call("parse_arxml_file", file.path, file.document,
                                            r.at, r.raised, r.exc, <<>>))
    /\ UNCHANGED session_frame

\* the call returned r for the Module of call i
CallReturned(op, i, r) ==
    /\ heap' = r.heap
    /\ held' = Append(held, Call(op, held[i].path, held[i].document, held[i].at, FALSE,
                                 NoException, <<r.result>>))
    /\ UNCHANGED session_frame

\* SimpleTreeGenerator(module).generate_simple_tree() for any Module held
SessionSimpleTree ==
    /\ Cardinality({i \in DOMAIN held : held[i].result # <<>>}) < MaxOps
    /\ \E i \in ModulesHeld :
           \E r \in {SimpleTreeGenerator(heap, held[i].at, FALSE)} :
               CallReturned("generate_simple_tree", i, r)

\* SimpleTreeGenerator(module).generate_detailed_tree() for any Module held
SessionDetailedTree ==
    /\ Cardinality({i \in DOMAIN held : held[i].result # <<>>}) < MaxOps
    /\ \E i \in ModulesHeld :
           \E r \in {SimpleTreeGenerator(heap, held[i].at, TRUE)} :
               CallReturned("generate_detailed_tree", i, r)

\* JSONGenerator(module).generate_json() of the class in effect
SessionJson ==
    /\ Cardinality({i \in DOMAIN held : held[i].result # <<>>}) < MaxOps
    /\ \E i \in ModulesHeld :
           \E r \in {JSONGenerator(heap, held[i].at, FALSE)} :
               CallReturned("generate_json", i, r)

\* JSONGenerator(module).generate_json() of the first class
SessionJsonDescriptive ==
    /\ Cardinality({i \in DOMAIN held : held[i].result # <<>>}) < MaxOps
    /\ \E i \in ModulesHeld :
           \E r \in {JSONGenerator(heap, held[i].at, TRUE)} :
               CallReturned("generate_json_descriptive", i, r)

NextSession ==
    \/ ParseFile
    \/ SessionSimpleTree
    \/ SessionDetailedTree
    \/ SessionJson
    \/ SessionJsonDescriptive

\* sessions of one parser object: up to MaxFiles parses and up to MaxOps
\* renderings and projections, in any order
SpecSession == InitSession /\ [][NextSession]_vars

(***************************************************************************)
(* The ECUC configurator (src/ecuc_configurator.py) and the tool            *)
(* create_ecuc_configuration (src/mcp_server.py).  A names mapping is a    *)
(* dict of strings: a sequence of <<part, name>>.                          *)
(***************************************************************************)
\* how many times the tool is called in one behaviour
MaxCalls == 2

\* seq[::-1]
Reverse(seq) == [i \in 1..Len(seq) |-> seq[Len(seq) + 1 - i]]

\* __decide_name(part, names), without its debug output
__decide_name(part, names) ==
    IF part \in KeySet(names) THEN DictGet(names, part) ELSE part

RECURSIVE DictUpdate(_, _)
\* d.update(other): every item of other assigned in order
DictUpdate(items, other) ==
    IF Len(other) = 0 THEN items
    ELSE DictUpdate(DictSet(items, Head(other)[1], Head(other)[2]), Tail(other))

RECURSIVE ConfigureLoop(_, _, _)
\* for idx, part in enumerate(parts) of configure: current after the loop
ConfigureLoop(current, parts, names) ==
    IF Len(parts) = 0 THEN current
    ELSE LET part == Head(parts)
             name == __decide_name(part, names)
             fresh == << <<"type", JStr(part)>> >>
             value == IF Len(current) > 0 THEN DictUpdate(fresh, current) ELSE fresh
         IN  ConfigureLoop(<< <<name, JDict(value)>> >>, Tail(parts), names)

\* list(filter(None, path.split('/')))
PathParts(path) == SelectSeq(Split(path, "/"), LAMBDA s : s # "")

\* ECUCConfigurator.configure(path, names)
configure(path, names) ==
    LET current == ConfigureLoop(<<>>, Reverse(PathParts(path)), names)
    IN  IF Len(current) > 0
        THEN JDict(<< <<"ecuc", JDict(current)>> >>)
        ELSE JDict(<<>>)

RECURSIVE _deep_merge(_, _)
\* ECUCConfigurator._deep_merge(a, b): a after the loop over b.items()
_deep_merge(a, b) ==
    IF Len(b.v) = 0 THEN a
    ELSE LET k == Head(b.v)[1]
             v == Head(b.v)[2]
             both == /\ k \in KeySet(a.v)
                     /\ DictGet(a.v, k).j = "dict"
                     /\ v.j = "dict"
             next == IF both
                     THEN JDict(DictSet(a.v, k, _deep_merge(DictGet(a.v, k), v)))
                     ELSE JDict(DictSet(a.v, k, v))
         IN  _deep_merge(next, JDict(Tail(b.v)))

\* what export2json leaves in the file: json.dump of dicts with string keys
\* and string leaves, which json.loads reads back as they were
export2json(data) == [readable |-> TRUE, data |-> data]

\* json.loads(out_path.read_text()), {} when it raises
ReadExisting(content) == IF content.readable THEN content.data ELSE JDict(<<>>)

\* save_or_merge(filename, config): the file after the call; file is <<>>
\* while out_path.exists() is false
save_or_merge(file, cfg) ==
    IF Len(file) > 0
    THEN <<export2json(_deep_merge(ReadExisting(file[1]), cfg))>>
    ELSE <<export2json(cfg)>>

\* the paths and the names mappings the tool is called with
ConfigPaths == {"", "//", "/com", "/com/cfg", "com//cfg/pdu/", "/com/type"}

ConfigNames ==
    { <<>>,
      << <<"pdu", "ESP_19">> >>,
      << <<"cfg", "ComConfig_0">>, <<"pdu", "ESP_19">> >>,
      << <<"cfg", "type">> >>,
      << <<"com", "cfg">>, <<"cfg", "com">> >> }

\* the server started in a directory without ecuc_config.json
InitConfig ==
    /\ file_path = ""
    /\ doc = NoDocument
    /\ phase = "start"
    /\ module = NoModule
    /\ exc = NoException
    /\ json_compact = <<>>
    /\ json_descriptive = <<>>
    /\ AuxIdle

\* the tool create_ecuc_configuration(path, names): configure, then
\* save_or_merge("ecuc_config.json", config); returns config
CreateEcucConfiguration ==
    /\ Len(saved) < MaxCalls
    /\ \E path \in ConfigPaths, names \in ConfigNames :
           LET cfg == configure(path, names)
           IN  /\ request' = [path |-> path, names |-> names]
               /\ config' = <<cfg>>
               /\ ecuc_file' = save_or_merge(ecuc_file, cfg)
               /\ saved' = Append(saved, cfg)
    /\ UNCHANGED <<conv_vars, parser_ns, pending, tree_simple, tree_detailed, paramdefs,
                   keyword, lookup, search_key, path_found, util, frames, tool_result,
                   tool_binding, obj_vars>>

NextConfig == CreateEcucConfiguration

\* calls of create_ecuc_configuration, one after the other
SpecConfig == InitConfig /\ [][NextConfig]_vars

(***************************************************************************)
(* mcp_util.get_definition (src/mcp_util.py, lines 47-84).  A file is a    *)
(* record of its path, whether json.loads reads it, and the data it gives. *)
(***************************************************************************)
RECURSIVE key_exists(_, _)
\* key_exists(obj, key) of get_definition; key is already in lower case
key_exists(obj, key) ==
    IF obj.j = "dict"
    THEN \/ \E i \in 1..Len(obj.v) : Lower(obj.v[i][1]) = key
         \/ \E i \in 1..Len(obj.v) : key_exists(obj.v[i][2], key)
    ELSE IF obj.j = "list"
    THEN \E i \in 1..Len(obj.v) : key_exists(obj.v[i], key)
    ELSE FALSE

RECURSIVE LoadLoop(_, _)
\* the for loop of lines 75-79: data after it, <<>> while data is unbound
LoadLoop(files, data) ==
    IF Len(files) = 0 THEN data
    ELSE LoadLoop(Tail(files), IF Head(files).loads THEN <<Head(files).data>> ELSE data)

\* mcp_util.get_definition(keyword, return_path) over the files found: the
\* test of line 80 follows the loop, with data and paramdef as the loop left
\* them; reading data while it is unbound raises UnboundLocalError
mcp_util_get_definition(files, key, return_path) ==
    IF Len(files) = 0 THEN [outcome |-> "returned", value |-> <<>>]
    ELSE LET lower_keyword == Lower(key)
             data == LoadLoop(files, <<>>)
             paramdef == files[Len(files)]
         IN  IF Len(data) = 0
             THEN [outcome |-> "UnboundLocalError", value |-> <<>>]
             ELSE IF key_exists(data[1], lower_keyword)
             THEN [outcome |-> "returned",
                   value |-> IF return_path THEN <<JStr(paramdef.path)>> ELSE data]
             ELSE [outcome |-> "returned", value |-> <<>>]

\* the param-definition JSON files of a workspace: two that load, one of
\* them with a key below a list, and one that json.loads rejects
JsonFiles ==
    { [path |-> "ws/com_paramdef.json", loads |-> TRUE,
       data |-> JDict(<< <<"Com", JDict(<< <<"ComGeneral",
                    JDict(<< <<"type", JStr("CONTAINER")>> >>)>> >>)>> >>)],
      [path |-> "ws/bsw/nvm_paramdef.json", loads |-> TRUE,
       data |-> JDict(<< <<"NvM", JDict(<< <<"blocks",
                    JList(<<JDict(<< <<"NvMBlock", JDict(<<>>)>> >>)>>)>> >>)>> >>)],
      [path |-> "ws/bad_paramdef.json", loads |-> FALSE, data |-> JDict(<<>>)] }

UtilKeywords == {"comgeneral", "NVMBLOCK", "ComSignal"}

\* a workspace and a call of get_definition about to be made
InitUtil ==
    /\ file_path = ""
    /\ doc = NoDocument
    /\ phase = "start"
    /\ module = NoModule
    /\ exc = NoException
    /\ json_compact = <<>>
    /\ json_descriptive = <<>>
    /\ parser_ns = ParserNs
    /\ pending = <<>>
    /\ tree_simple = <<>>
    /\ tree_detailed = <<>>
    /\ paramdefs = <<>>
    /\ keyword = ""
    /\ lookup = NoLookup
    /\ search_key = ""
    /\ path_found = <<>>
    /\ request = NoRequest
    /\ config = <<>>
    /\ ecuc_file = <<>>
    /\ saved = <<>>
    /\ \E files \in SeqsUpTo(JsonFiles, MaxFiles), key \in UtilKeywords, rp \in BOOLEAN :
           util = [files |-> files, keyword |-> key, return_path |-> rp,
                   outcome |-> "", value |-> <<>>]
    /\ frames = 0
    /\ tool_result = ""
    /\ tool_binding = ""
    /\ ObjIdle

\* get_definition(keyword, return_path) of mcp_util
McpUtilGetDefinition ==
    /\ util.outcome = ""
    /\ LET r == mcp_util_get_definition(util.files, util.keyword, util.return_path)
       IN  util' = [util EXCEPT !.outcome = r.outcome, !.value = r.value]
    /\ UNCHANGED <<conv_vars, parser_ns, pending, tree_simple, tree_detailed, paramdefs,
                   keyword, lookup, search_key, path_found, request, config, ecuc_file,
                   saved, frames, tool_result, tool_binding,
                   obj_vars>>

NextUtil == McpUtilGetDefinition

\* one call of mcp_util.get_definition in each workspace
SpecUtil == InitUtil /\ [][NextUtil]_vars

(***************************************************************************)
(* The tool get_precise_time of src/mcp_server.py (lines 10, 24-29)        *)
(***************************************************************************)
\* the depth of the call stack at which the interpreter raises RecursionError
MaxFrames == 120

\* what app.tool() may return for the function it registers: the function
\* itself or a tool object that cannot be called, as the FastMCP in use does
DecoratorResults == {"wrapper", "FunctionTool"}

\* the bindings the module gives the name get_precise_time while it is
\* loaded, in order: the import of line 10, then the decorated def of
\* lines 24-29
GlobalBindings(decorated) == <<"mcp_util.get_precise_time", decorated>>

\* the global get_precise_time once the module is loaded: the last binding
GlobalGetPreciseTime(decorated) == Last(GlobalBindings(decorated))

\* mcp_server was loaded and no tool was called
InitServer ==
    /\ file_path = ""
    /\ doc = NoDocument
    /\ phase = "start"
    /\ module = NoModule
    /\ exc = NoException
    /\ json_compact = <<>>
    /\ json_descriptive = <<>>
    /\ parser_ns = ParserNs
    /\ pending = <<>>
    /\ tree_simple = <<>>
    /\ tree_detailed = <<>>
    /\ paramdefs = <<>>
    /\ keyword = ""
    /\ lookup = NoLookup
    /\ search_key = ""
    /\ path_found = <<>>
    /\ request = NoRequest
    /\ config = <<>>
    /\ ecuc_file = <<>>
    /\ saved = <<>>
    /\ util = NoUtilCall
    /\ frames = 0
    /\ tool_result = ""
    /\ tool_binding \in DecoratorResults
    /\ ObjIdle

server_frame ==
    <<conv_vars, parser_ns, pending, tree_simple, tree_detailed, paramdefs, keyword,
      lookup, search_key, path_found, request, config, ecuc_file, saved, util,
      tool_binding, obj_vars>>

\* the server calls the function registered for the tool get_precise_time
CallGetPreciseTimeTool ==
    /\ frames = 0
    /\ tool_result = ""
    /\ frames' = 1
    /\ UNCHANGED tool_result
    /\ UNCHANGED server_frame

\* the body of the wrapper in its newest frame: return get_precise_time(),
\* the name looked up among the globals of mcp_server
GetPreciseTimeBody ==
    /\ frames > 0
    /\ LET callee == GlobalGetPreciseTime(tool_binding)
       IN  CASE callee = "mcp_util.get_precise_time" ->
                    /\ tool_result' = "datetime"
                    /\ frames' = 0
             [] callee = "wrapper" /\ frames < MaxFrames ->
                    /\ frames' = frames + 1
                    /\ UNCHANGED tool_result
             [] callee = "wrapper" /\ frames >= MaxFrames ->
                    /\ tool_result' = "RecursionError"
                    /\ frames' = 0
             [] callee = "FunctionTool" ->
                    /\ tool_result' = "TypeError"
                    /\ frames' = 0
    /\ UNCHANGED server_frame

NextServer ==
    \/ CallGetPreciseTimeTool
    \/ GetPreciseTimeBody

\* one call of the tool; a call that can take a step does
SpecServer == InitServer /\ [][NextServer]_vars /\ WF_vars(NextServer)

(***************************************************************************)
(* Vocabulary of the properties                                            *)
(***************************************************************************)
Returned == phase \in {"parsed", "converted"}

Finished == phase # "start"

HasTag(elem, local) == elem.tag = QName(AR_NS, local)

\* every element of the document, the document element first
AllElements(root) == <<root>> \o Descendants(root)

\* the text of the SHORT-NAME child as the document gives it
ShortNameOf(elem) ==
    LET names == SelectSeq(elem.kids, LAMBDA e : HasTag(e, "SHORT-NAME"))
    IN  IF Len(names) = 0 THEN "" ELSE Head(names).text

NamesOf(elems) == {ShortNameOf(elems[i]) : i \in 1..Len(elems)}

ModuleDefsIn(elems) == SelectSeq(elems, LAMBDA e : HasTag(e, "ECUC-MODULE-DEF"))

DestDefsIn(elems) == SelectSeq(elems, LAMBDA e : HasTag(e, "ECUC-DESTINATION-URI-DEF"))

ConfDefsIn(elems) ==
    SelectSeq(elems, LAMBDA e : HasTag(e, "ECUC-PARAM-CONF-CONTAINER-DEF"))

\* the destination-URI definitions that wrap a container definition
WrappingDestDefsIn(elems) ==
    SelectSeq(DestDefsIn(elems), LAMBDA d : Len(ConfDefsIn(Descendants(d))) > 0)

RECURSIVE ConfDefsWithin(_)
\* the container definitions wrapped by the given destination-URI definitions
ConfDefsWithin(dests) ==
    IF Len(dests) = 0 THEN <<>>
    ELSE ConfDefsIn(Descendants(Head(dests))) \o ConfDefsWithin(Tail(dests))

(***************************************************************************)
(* C3: root location                                                       *)
(***************************************************************************)
\* C3 as claimed: a module definition anywhere in the document (the document
\* element included) is the root; otherwise a container definition wrapped by
\* any destination-URI definition is the root; otherwise there is no root.
C3_RootAnywhere ==
    (Finished /\ doc.well_formed) =>
        LET all == AllElements(doc.root)
        IN  IF Len(ModuleDefsIn(all)) > 0
            THEN Returned /\ module.name \in NamesOf(ModuleDefsIn(all))
            ELSE IF Len(WrappingDestDefsIn(all)) > 0
            THEN Returned /\ module.name \in NamesOf(ConfDefsWithin(WrappingDestDefsIn(all)))
            ELSE phase = "failed"

\* C3 amended: among the elements below the document element, the first module
\* definition in document order is the root, also when a destination-URI
\* definition is present; without one, the root is the first container
\* definition below the first destination-URI definition, if that one wraps
\* any; in every other case no root is found and the parse fails.
C3_RootLocation ==
    (Finished /\ doc.well_formed) =>
        LET below == Descendants(doc.root)
            mods == ModuleDefsIn(below)
            dests == DestDefsIn(below)
        IN  IF Len(mods) > 0
            THEN Returned /\ module.name = ShortNameOf(Head(mods))
            ELSE IF Len(dests) > 0 /\ Len(ConfDefsIn(Descendants(Head(dests)))) > 0
            THEN Returned
                 /\ module.name = ShortNameOf(Head(ConfDefsIn(Descendants(Head(dests)))))
            ELSE phase = "failed"

\* a document holding a destination-URI definition before its module
\* definition was parsed, and the module definition became the root
C3_Witness ==
    /\ Returned
    /\ LET below == Descendants(doc.root)
       IN  /\ Len(ModuleDefsIn(below)) > 0
           /\ Len(WrappingDestDefsIn(below)) > 0
           /\ HasTag(doc.root.kids[1], "ECUC-DESTINATION-URI-DEF")
           /\ module.name = ShortNameOf(Head(ModuleDefsIn(below)))

(***************************************************************************)
(* C4: no root                                                             *)
(***************************************************************************)
\* the claim's precondition: neither a module definition nor a
\* destination-URI definition wrapping a container definition
NoRootShape ==
    /\ doc.well_formed
    /\ Len(ModuleDefsIn(AllElements(doc.root))) = 0
    /\ Len(WrappingDestDefsIn(AllElements(doc.root))) = 0

\* C4 as claimed: a well-formed document without a root makes the conversion
\* fail with a condition that carries the file path, and neither a Module nor
\* a JSON value is returned.
C4_NoRootCarriesPath ==
    (Finished /\ NoRootShape) =>
        /\ phase = "failed"
        /\ Contains(exc.msg, file_path)
        /\ module = NoModule
        /\ json_compact = <<>>

(***************************************************************************)
(* C5: malformed documents                                                 *)
(***************************************************************************)
\* the type of the exception a well-formed document without a root surfaces
MissingRootType ==
    parse_arxml_file(ParserNs, WellFormed(Elem("AUTOSAR", "", <<>>))).exc.type

\* C5 as claimed: a document that is not well formed makes the conversion fail
\* without a partial result, with a condition whose type differs from the one
\* surfaced for a missing root.
C5_MalformedIsDistinct ==
    (Finished /\ ~doc.well_formed) =>
        /\ phase = "failed"
        /\ module = NoModule
        /\ json_compact = <<>>
        /\ exc.type # MissingRootType

(***************************************************************************)
(* C6, C7: the containers of the Module                                    *)
(***************************************************************************)
\* the root as C3 (amended) locates it, as a sequence of at most one element
RecognizedRoot(root) ==
    LET below == Descendants(root)
        mods == ModuleDefsIn(below)
        dests == DestDefsIn(below)
    IN  IF Len(mods) > 0 THEN <<Head(mods)>>
        ELSE IF Len(dests) > 0 /\ Len(ConfDefsIn(Descendants(Head(dests)))) > 0
        THEN <<Head(ConfDefsIn(Descendants(Head(dests))))>>
        ELSE <<>>

HasRecognizedRoot == doc.well_formed /\ Len(RecognizedRoot(doc.root)) > 0

\* the children of the root's grouping with the given tag
GroupingChildren(root, local) ==
    LET groups == SelectSeq(root.kids, LAMBDA e : HasTag(e, local))
    IN  IF Len(groups) = 0 THEN <<>> ELSE Head(groups).kids

\* the children of the root's two groupings in document order
ChildrenInDocumentOrder(root) ==
    LET groups == SelectSeq(root.kids,
                      LAMBDA e : HasTag(e, "SUB-CONTAINERS") \/ HasTag(e, "CONTAINERS"))
    IN  KidsOfAll(groups)

NameSeq(records) == [i \in 1..Len(records) |-> records[i].name]

\* short names as the tree carries them: stripped, "" when missing
ElemNameSeq(elems) == [i \in 1..Len(elems) |-> Strip(ShortNameOf(elems[i]))]

\* the names of containers[i] of a descriptive projection, for increasing i
DescriptiveContainerNames(json) ==
    LET containers == DictGet(json.v, "containers").v
    IN  [i \in 1..Len(containers) |-> DictGet(containers[i].v, "name").v]

\* C6 as claimed: with a recognized root the parse returns a Module with as
\* many top-level containers as the root's two groupings have child elements.
C6_CountsEveryChild ==
    (Finished /\ HasRecognizedRoot) =>
        LET root == Head(RecognizedRoot(doc.root))
        IN  /\ Returned
            /\ Len(module.containers) =
                   Len(GroupingChildren(root, "SUB-CONTAINERS"))
                   + Len(GroupingChildren(root, "CONTAINERS"))

\* C6 amended: with a recognized root the parse never fails, and the Module
\* has as many top-level containers as the root's two groupings have child
\* elements with the tag ECUC-PARAM-CONF-CONTAINER-DEF (children with another
\* tag are passed over); a container without a name gets the empty name.
C6_CountsContainerDefs ==
    (Finished /\ HasRecognizedRoot) =>
        LET root == Head(RecognizedRoot(doc.root))
            subs == ConfDefsIn(GroupingChildren(root, "SUB-CONTAINERS"))
            direct == ConfDefsIn(GroupingChildren(root, "CONTAINERS"))
        IN  /\ Returned
            /\ Len(module.containers) = Len(subs) + Len(direct)
            /\ \A i \in 1..Len(module.containers) :
                   module.containers[i].name \in NamesOf(subs \o direct)

\* a Module was returned for a root whose groupings hold a nameless container
\* definition and an element with another tag
C6_Witness ==
    /\ Returned
    /\ HasRecognizedRoot
    /\ LET root == Head(RecognizedRoot(doc.root))
           kids == ChildrenInDocumentOrder(root)
       IN  /\ Len(ConfDefsIn(kids)) = 2
           /\ Len(kids) = 3
           /\ \E i \in 1..Len(module.containers) : module.containers[i].name = ""

\* C7 as claimed: the Module's containers, and containers[i] of the
\* descriptive projection, follow the document order of the container
\* elements of the two groupings together, whichever grouping comes first.
C7_DocumentOrder ==
    (Returned /\ HasRecognizedRoot) =>
        LET root == Head(RecognizedRoot(doc.root))
            expected == ElemNameSeq(ConfDefsIn(ChildrenInDocumentOrder(root)))
        IN  /\ NameSeq(module.containers) = expected
            /\ Len(json_descriptive) > 0 =>
                   DescriptiveContainerNames(json_descriptive[1]) = expected

\* C7 amended: the Module's containers, and containers[i] of the descriptive
\* projection, are the container definitions of the sub-containers grouping
\* in document order followed by those of the direct containers grouping in
\* document order, also when the direct grouping comes first in the document.
C7_SubContainersFirst ==
    (Returned /\ HasRecognizedRoot) =>
        LET root == Head(RecognizedRoot(doc.root))
            expected ==
                ElemNameSeq(ConfDefsIn(GroupingChildren(root, "SUB-CONTAINERS")))
                \o ElemNameSeq(ConfDefsIn(GroupingChildren(root, "CONTAINERS")))
        IN  /\ NameSeq(module.containers) = expected
            /\ Len(json_descriptive) > 0 =>
                   DescriptiveContainerNames(json_descriptive[1]) = expected

\* the descriptive projection was produced for a root whose direct grouping
\* precedes its sub-containers grouping, each holding a container definition
\* of its own name
C7_Witness ==
    /\ Returned
    /\ HasRecognizedRoot
    /\ Len(json_descriptive) > 0
    /\ LET root == Head(RecognizedRoot(doc.root))
       IN  /\ ElemNameSeq(ChildrenInDocumentOrder(root)) = <<"A", "">>
           /\ ElemNameSeq(GroupingChildren(root, "SUB-CONTAINERS")) = <<"">>
           /\ DescriptiveContainerNames(json_descriptive[1]) = <<"", "A">>

(***************************************************************************)
(* C1: the compact projection                                              *)
(***************************************************************************)
\* a dict without a repeated key
UniqueKeys(items) == Cardinality(KeySet(items)) = Len(items)

NameSet(records) == {records[i].name : i \in 1..Len(records)}

RECURSIVE CompactMatches(_, _)
\* json is an object whose keys are exactly the names of the container's
\* parameters and sub-containers, a sub-container's key holding the
\* projection, by the same rule, of a sub-container of that name
CompactMatches(container, json) ==
    /\ json.j = "dict"
    /\ UniqueKeys(json.v)
    /\ KeySet(json.v) = NameSet(container.parameters) \cup NameSet(container.sub_containers)
    /\ \A n \in NameSet(container.sub_containers) :
           \E i \in 1..Len(container.sub_containers) :
               /\ container.sub_containers[i].name = n
               /\ CompactMatches(container.sub_containers[i], DictGet(json.v, n))

\* C1: the compact projection is an object with the single key module.name
\* (the short name of the root, case preserved); its value has exactly one key
\* per distinct top-level container name, and at every level a container's
\* object has as keys exactly the names of its parameters and sub-containers.
C1_CompactShape ==
    (Returned /\ Len(json_compact) > 0) =>
        LET json == json_compact[1]
            root == Head(RecognizedRoot(doc.root))
        IN  /\ json.j = "dict"
            /\ DictKeys(json.v) = <<module.name>>
            /\ module.name = Strip(ShortNameOf(root))
            /\ LET top == json.v[1][2]
               IN  /\ top.j = "dict"
                   /\ UniqueKeys(top.v)
                   /\ KeySet(top.v) = NameSet(module.containers)
                   /\ KeySet(top.v) =
                          {Strip(n) : n \in NamesOf(GroupingChildren(root, "CONTAINERS"))}
                   /\ \A n \in KeySet(top.v) :
                          \E i \in 1..Len(module.containers) :
                              /\ module.containers[i].name = n
                              /\ CompactMatches(module.containers[i], DictGet(top.v, n))

\* the conversion returned the compact projection of a container whose
\* parameters "Flag" and "Sub" and whose sub-containers "Flag" and "sub",
\* the first with a sub-container of its own, make three keys
C1_Witness ==
    /\ phase = "converted"
    /\ Len(json_compact) > 0
    /\ Len(module.containers) = 1
    /\ NameSeq(module.containers[1].parameters) = <<"Flag", "Sub">>
    /\ NameSeq(module.containers[1].sub_containers) = <<"Flag", "sub">>
    /\ LET top == DictGet(json_compact[1].v, "Mod")
       IN  /\ KeySet(DictGet(top.v, "Top").v) = {"Flag", "Sub", "sub"}
           /\ KeySet(DictGet(DictGet(top.v, "Top").v, "Flag").v) = {"Deep"}

(***************************************************************************)
(* C8: every child of a parameter group and of a reference group           *)
(***************************************************************************)
ParamKindTable ==
    { <<"ECUC-BOOLEAN-PARAM-DEF", "BOOLEAN">>, <<"ECUC-INTEGER-PARAM-DEF", "INTEGER">>,
      <<"ECUC-FLOAT-PARAM-DEF", "FLOAT">>, <<"ECUC-STRING-PARAM-DEF", "STRING">>,
      <<"ECUC-ENUMERATION-PARAM-DEF", "ENUMERATION">>,
      <<"ECUC-FUNCTION-NAME-DEF", "FUNCTION_NAME">> }

RefKindTable ==
    { <<"ECUC-REFERENCE-DEF", "REFERENCE">>,
      <<"ECUC-CHOICE-REFERENCE-DEF", "CHOICE_REFERENCE">>,
      <<"ECUC-FOREIGN-REFERENCE-DEF", "FOREIGN_REFERENCE">> }

\* the kind the table gives the element's tag, or fallback
KindOf(elem, table, fallback) ==
    IF \E row \in table : HasTag(elem, row[1])
    THEN (CHOOSE row \in table : HasTag(elem, row[1]))[2]
    ELSE fallback

RECURSIVE AccountsForChildren(_, _)
\* the container holds one Parameter per child of the element's parameter
\* group and one Reference per child of its reference group, in order, each
\* with the kind of its tag; and so do its child containers
AccountsForChildren(elem, container) ==
    LET params == GroupingChildren(elem, "PARAMETERS")
        refs == GroupingChildren(elem, "REFERENCES")
        nested == GroupingChildren(elem, "SUB-CONTAINERS") \o GroupingChildren(elem, "CHOICES")
    IN  /\ Len(container.parameters) = Len(params)
        /\ \A i \in 1..Len(params) :
               /\ container.parameters[i].param_type =
                      KindOf(params[i], ParamKindTable, "UNKNOWN")
               /\ container.parameters[i].name = Strip(ShortNameOf(params[i]))
        /\ Len(container.references) = Len(refs)
        /\ \A i \in 1..Len(refs) :
               /\ container.references[i].ref_type =
                      KindOf(refs[i], RefKindTable, "REFERENCE")
               /\ container.references[i].name = Strip(ShortNameOf(refs[i]))
        /\ Len(container.sub_containers) = Len(nested)
        /\ \A i \in 1..Len(nested) :
               AccountsForChildren(nested[i], container.sub_containers[i])

\* the "type" entries of the parameters array of a descriptive container
DescriptiveParamTypes(json) ==
    LET params == DictGet(json.v, "parameters").v
    IN  [i \in 1..Len(params) |-> DictGet(params[i].v, "type").v]

\* C8: every child of a container's parameter group yields one Parameter and
\* every child of its reference group one Reference, with the kind the tag
\* table gives and UNKNOWN / REFERENCE for any other tag; the descriptive
\* projection lists every parameter with that kind.
C8_EveryChildAccounted ==
    Returned =>
        LET root == Head(RecognizedRoot(doc.root))
            elems == ConfDefsIn(GroupingChildren(root, "CONTAINERS"))
        IN  /\ Len(module.containers) = Len(elems)
            /\ \A i \in 1..Len(elems) :
                   /\ AccountsForChildren(elems[i], module.containers[i])
                   /\ Len(json_descriptive) > 0 =>
                          DescriptiveParamTypes(
                              DictGet(json_descriptive[1].v, "containers").v[i])
                          = [k \in 1..Len(module.containers[i].parameters) |->
                                KindOf(GroupingChildren(elems[i], "PARAMETERS")[k],
                                       ParamKindTable, "UNKNOWN")]

\* the descriptive projection was produced for a container whose parameter
\* group holds a child with a tag outside the table and whose reference
\* group holds one too
C8_Witness ==
    /\ Returned
    /\ Len(json_descriptive) > 0
    /\ Len(module.containers) = 1
    /\ LET top == module.containers[1]
       IN  /\ Len(top.parameters) = 2
           /\ top.parameters[2].param_type = "UNKNOWN"
           /\ top.parameters[2].name = "Info"
           /\ Len(top.references) = 2
           /\ top.references[1].ref_type = "REFERENCE"
           /\ top.references[1].name = "Flag"
           /\ DescriptiveParamTypes(DictGet(json_descriptive[1].v, "containers").v[1])[2]
                  = "UNKNOWN"

(***************************************************************************)
(* C9, C10: multiplicity                                                   *)
(***************************************************************************)
\* the text of the element's child with the tag as the document gives it,
\* as a sequence: empty when the child is absent
RawText(elem, local) ==
    LET found == SelectSeq(elem.kids, LAMBDA e : HasTag(e, local))
    IN  IF Len(found) = 0 THEN <<>> ELSE <<Head(found).text>>

\* "1" when the text is absent or empty
OrOne(raw) == IF Len(raw) = 0 \/ raw[1] = "" THEN "1" ELSE raw[1]

\* the same with surrounding whitespace removed from a text that is present
StrippedOrOne(raw) == IF Len(raw) = 0 \/ raw[1] = "" THEN "1" ELSE Strip(raw[1])

\* the display rule of the multiplicity encoder
Display(lower, upper) ==
    IF upper = "*" THEN lower \o "..*"
    ELSE IF lower = upper THEN lower
    ELSE lower \o ".." \o upper

\* the container element of a document of one top-level container
TopElem == Head(GroupingChildren(Head(RecognizedRoot(doc.root)), "CONTAINERS"))

OneTopContainer ==
    /\ Returned
    /\ Len(module.containers) = 1
    /\ Len(module.containers[1].parameters) = 1
    /\ Len(module.containers[1].references) = 1

\* C9 as claimed: the display string follows the rule on the two texts as the
\* document gives them, each replaced by "1" when absent or empty.
C9_DisplayOfTexts ==
    OneTopContainer =>
        module.containers[1].multiplicity =
            Display(OrOne(RawText(TopElem, "LOWER-MULTIPLICITY")),
                    OrOne(RawText(TopElem, "UPPER-MULTIPLICITY")))

\* C9 amended: with lower and upper the two texts stripped of surrounding
\* whitespace (a text of whitespace only gives the empty string), each "1"
\* when the text is absent or empty, the display string is lower..* when
\* upper is "*" (also when lower is "*"), else lower alone when lower equals
\* upper, else lower..upper; containers, parameters and references alike.
C9_DisplayOfStrippedTexts ==
    OneTopContainer =>
        LET top == module.containers[1]
            params == GroupingChildren(TopElem, "PARAMETERS")
            refs == GroupingChildren(TopElem, "REFERENCES")
            expected(elem) ==
                Display(StrippedOrOne(RawText(elem, "LOWER-MULTIPLICITY")),
                        StrippedOrOne(RawText(elem, "UPPER-MULTIPLICITY")))
        IN  /\ top.multiplicity = expected(TopElem)
            /\ top.parameters[1].multiplicity = expected(params[1])
            /\ top.references[1].multiplicity = expected(refs[1])

\* a container, a parameter and a reference with the texts "*" and "*" were
\* parsed and show "*..*"
C9_Witness ==
    /\ OneTopContainer
    /\ RawText(TopElem, "LOWER-MULTIPLICITY") = <<"*">>
    /\ RawText(TopElem, "UPPER-MULTIPLICITY") = <<"*">>
    /\ module.containers[1].multiplicity = "*..*"
    /\ module.containers[1].parameters[1].multiplicity = "*..*"
    /\ module.containers[1].references[1].multiplicity = "*..*"

\* the integer a text stands for, 1 when it is absent or does not parse
IntOrOne(raw) ==
    IF Len(raw) > 0 /\ IntParses(raw[1]) THEN IntValue(raw[1]) ELSE 1

\* C10 as claimed: the descriptive projection reports lowerMultiplicity = the
\* integer value of the lower text, 1 when it does not parse, and
\* upperMultiplicity = -1 when the upper text is "*", else the integer value
\* of the upper text, 1 when it does not parse.
C10_BoundsOfTexts ==
    (OneTopContainer /\ Len(json_descriptive) > 0) =>
        LET lower == RawText(TopElem, "LOWER-MULTIPLICITY")
            upper == RawText(TopElem, "UPPER-MULTIPLICITY")
            json == DictGet(json_descriptive[1].v, "containers").v[1]
        IN  /\ DictGet(json.v, "lowerMultiplicity") = JInt(IntOrOne(lower))
            /\ DictGet(json.v, "upperMultiplicity") =
                   JInt(IF Len(upper) > 0 /\ Strip(upper[1]) = "*"
                        THEN 0 - 1 ELSE IntOrOne(upper))

(***************************************************************************)
(* C2: the attribute object of a parameter                                 *)
(***************************************************************************)
\* the attribute object the compact projection holds for the one parameter of
\* a Module of ModuleFamily
AttributesOfP ==
    DictGet(DictGet(DictGet(json_compact[1].v, "Mod").v, "C").v, "P")

\* key is present exactly when present holds, and then carries value
HasExactly(items, key, present, value) ==
    /\ (key \in KeySet(items)) <=> present
    /\ present => DictGet(items, key) = value

\* C2: the attribute object holds "type" iff param_type is non-empty,
\* "multiplicity" iff the display string is non-empty and not "1", "options"
\* iff there are literals, "minValue", "maxValue", "default", "description"
\* iff the field is non-empty, and no other key; a parameter with none of
\* them projects to {}.
C2_AttributeKeys ==
    (phase = "parsed" /\ module \in ModuleFamily /\ Len(json_compact) > 0) =>
        LET q == module.containers[1].parameters[1]
            attrs == AttributesOfP.v
        IN  /\ AttributesOfP.j = "dict"
            /\ UniqueKeys(attrs)
            /\ KeySet(attrs) \subseteq {"type", "multiplicity", "options", "minValue",
                                        "maxValue", "default", "description"}
            /\ HasExactly(attrs, "type", q.param_type # "", JStr(q.param_type))
            /\ HasExactly(attrs, "multiplicity",
                          q.multiplicity # "" /\ q.multiplicity # "1", JStr(q.multiplicity))
            /\ HasExactly(attrs, "options", Len(q.literals) > 0, StrList(q.literals))
            /\ HasExactly(attrs, "minValue", q.min_value # "", JStr(q.min_value))
            /\ HasExactly(attrs, "maxValue", q.max_value # "", JStr(q.max_value))
            /\ HasExactly(attrs, "default", q.default_value # "", JStr(q.default_value))
            /\ HasExactly(attrs, "description", q.description # "", JStr(q.description))
            /\ (q = Parameter("P", "", q.multiplicity, "", "", "", "", <<>>)
                /\ q.multiplicity \in {"", "1"}) => attrs = <<>>

\* a parameter with no type, multiplicity "1" and nothing else was projected
\* to the empty object
C2_Witness ==
    /\ phase = "parsed"
    /\ module \in ModuleFamily
    /\ Len(json_compact) > 0
    /\ module.containers[1].parameters[1] = Parameter("P", "", "1", "", "", "", "", <<>>)
    /\ AttributesOfP = JDict(<<>>)

(***************************************************************************)
(* C11: projections are repeatable; key order of the compact projection    *)
(***************************************************************************)
RECURSIVE FirstSeen(_)
\* the distinct members of a sequence in the order of their first occurrence
FirstSeen(seq) ==
    IF Len(seq) = 0 THEN <<>>
    ELSE LET front == FirstSeen(SubSeq(seq, 1, Len(seq) - 1))
         IN  IF \E i \in 1..Len(front) : front[i] = seq[Len(seq)]
             THEN front
             ELSE Append(front, seq[Len(seq)])

\* the last record of the sequence with the name
LastNamed(records, n) ==
    records[CHOOSE i \in 1..Len(records) :
                /\ records[i].name = n
                /\ \A k \in (i + 1)..Len(records) : records[k].name # n]

RECURSIVE KeyOrderMatches(_, _)
\* the keys of the container's object, and of every container object below
\* it, are in first-seen order over its parameters, then its sub-containers
KeyOrderMatches(container, json) ==
    /\ DictKeys(json.v) =
           FirstSeen(NameSeq(container.parameters) \o NameSeq(container.sub_containers))
    /\ \A n \in NameSet(container.sub_containers) :
           KeyOrderMatches(LastNamed(container.sub_containers, n), DictGet(json.v, n))

\* every container object of the compact projection has its keys in
\* first-seen order
CompactKeyOrder ==
    Len(json_compact) > 0 =>
        LET top == json_compact[1].v[1][2]
        IN  /\ DictKeys(top.v) = FirstSeen(NameSeq(module.containers))
            /\ \A n \in NameSet(module.containers) :
                   KeyOrderMatches(LastNamed(module.containers, n), DictGet(top.v, n))

\* a projection that was produced is produced again unchanged, and no
\* projection changes the other one
ProjectionsRepeat ==
    /\ Len(json_compact) > 0 => json_compact' = json_compact
    /\ Len(json_descriptive) > 0 => json_descriptive' = json_descriptive

\* C11: projecting the same Module again, either projection, in either order,
\* the other projection in between or not, yields the identical JSON; and in
\* the compact projection the keys of every container object are in
\* first-seen order of the names of the container's parameters followed by
\* those of its sub-containers.
C11_RepeatableKeyOrder == [][ProjectionsRepeat]_vars /\ []CompactKeyOrder

\* both projections were produced of a container whose parameters "Flag" and
\* "Sub" precede its sub-containers "Flag" and "sub": the key "Flag", written
\* twice, is still the first
C11_Witness ==
    /\ phase = "parsed"
    /\ Len(json_compact) > 0
    /\ Len(json_descriptive) > 0
    /\ Len(module.containers) = 1
    /\ NameSeq(module.containers[1].parameters) = <<"Flag", "Sub">>
    /\ NameSeq(module.containers[1].sub_containers) = <<"Flag", "sub">>
    /\ DictKeys(DictGet(DictGet(json_compact[1].v, "Mod").v, "Top").v)
           = <<"Flag", "Sub", "sub">>

(***************************************************************************)
(* C12: the end-to-end scenario                                            *)
(***************************************************************************)
\* the element has no child with the tag
Lacks(elem, local) == Len(SelectSeq(elem.kids, LAMBDA e : HasTag(e, local))) = 0

\* the document defines module Com with exactly one container, ComConfig,
\* holding exactly one parameter, the boolean ComMainFunctionPeriod with
\* multiplicity "1" and default "0.01", without description, bounds or
\* literals
ComScenario ==
    /\ HasRecognizedRoot
    /\ LET root == Head(RecognizedRoot(doc.root))
           tops == GroupingChildren(root, "SUB-CONTAINERS")
                   \o GroupingChildren(root, "CONTAINERS")
       IN  /\ HasTag(root, "ECUC-MODULE-DEF")
           /\ Strip(ShortNameOf(root)) = "Com"
           /\ Len(tops) = 1
           /\ HasTag(tops[1], "ECUC-PARAM-CONF-CONTAINER-DEF")
           /\ Strip(ShortNameOf(tops[1])) = "ComConfig"
           /\ Lacks(tops[1], "REFERENCES")
           /\ Lacks(tops[1], "SUB-CONTAINERS")
           /\ Lacks(tops[1], "CHOICES")
           /\ LET params == GroupingChildren(tops[1], "PARAMETERS")
              IN  /\ Len(params) = 1
                  /\ HasTag(params[1], "ECUC-BOOLEAN-PARAM-DEF")
                  /\ Strip(ShortNameOf(params[1])) = "ComMainFunctionPeriod"
                  /\ Display(StrippedOrOne(RawText(params[1], "LOWER-MULTIPLICITY")),
                             StrippedOrOne(RawText(params[1], "UPPER-MULTIPLICITY"))) = "1"
                  /\ Len(RawText(params[1], "DEFAULT-VALUE")) = 1
                  /\ Strip(RawText(params[1], "DEFAULT-VALUE")[1]) = "0.01"
                  /\ Lacks(params[1], "DESC")
                  /\ Lacks(params[1], "MIN")
                  /\ Lacks(params[1], "MAX")
                  /\ Lacks(params[1], "LITERALS")

\* the one top-level container element of a scenario document
TopElemOfCom ==
    LET root == Head(RecognizedRoot(doc.root))
    IN  Head(GroupingChildren(root, "SUB-CONTAINERS") \o GroupingChildren(root, "CONTAINERS"))

\* {"Com": {"ComConfig": {"ComMainFunctionPeriod":
\*     {"type": "BOOLEAN", "default": "0.01"}}}}
ComScenarioJson ==
    JDict(<< <<"Com",
        JDict(<< <<"ComConfig",
            JDict(<< <<"ComMainFunctionPeriod",
                JDict(<< <<"type", JStr("BOOLEAN")>>,
                         <<"default", JStr("0.01")>> >>)>> >>)>> >>)>> >>)

\* C12: converting a document that defines module Com with exactly one
\* container ComConfig holding exactly one boolean parameter
\* ComMainFunctionPeriod, multiplicity "1", default "0.01", no description,
\* bounds or literals, yields exactly {"Com": {"ComConfig":
\* {"ComMainFunctionPeriod": {"type": "BOOLEAN", "default": "0.01"}}}}.
C12_EndToEnd ==
    (Finished /\ phase # "parsed" /\ ComScenario) =>
        /\ phase = "converted"
        /\ json_compact = <<ComScenarioJson>>

\* the conversion returned for a scenario document that spells the
\* multiplicity out as 1 and 1 and pads the default with whitespace
C12_Witness ==
    /\ phase = "converted"
    /\ ComScenario
    /\ LET param == GroupingChildren(TopElemOfCom, "PARAMETERS")[1]
       IN  /\ RawText(param, "LOWER-MULTIPLICITY") = <<"1">>
           /\ RawText(param, "UPPER-MULTIPLICITY") = <<"1">>
           /\ RawText(param, "DEFAULT-VALUE") = <<" 0.01\n">>
    /\ json_compact = <<ComScenarioJson>>

(***************************************************************************)
(* C13: a failing document in a lookup over several documents              *)
(***************************************************************************)
\* the conversion of the file returns
Converts(paramdef) == ~convert_arxml_to_json(ParserNs, paramdef.doc).raised

PathsOf(files) == [i \in 1..Len(files) |-> files[i].path]

RECURSIVE OrdersOfConverting(_, _)
\* the key orders of the files that convert
OrdersOfConverting(files, orders) ==
    IF Len(files) = 0 \/ Len(orders) = 0 THEN <<>>
    ELSE (IF Converts(Head(files)) THEN <<Head(orders)>> ELSE <<>>)
         \o OrdersOfConverting(Tail(files), Tail(orders))

\* the entries the lookup fn collects over the files, their keys listed as
\* orders tells
EntriesOver(fn, files, scoring, orders) ==
    CASE fn = "get_definition" ->
             get_definition(files, scoring, ParserNs, orders).entries
      [] fn = "get_definition_path_difflib" ->
             get_definition_path_difflib(files, scoring, ParserNs).entries
      [] fn = "get_definition_path_rapidfuzz" ->
             get_definition_path_rapidfuzz(files, scoring, ParserNs, orders).entries

\* C13: in a lookup over several documents (get_definition,
\* get_definition_path_difflib, get_definition_path_rapidfuzz) the call does
\* not fail; every document is converted exactly once, in order, also after a
\* document whose conversion failed; a failing document contributes no entry;
\* and the entries are those the same lookup collects over the other
\* documents alone.
C13_BatchIsolation ==
    lookup.fn # "" =>
        /\ ~lookup.raised
        /\ lookup.calls = PathsOf(paramdefs)
        /\ \A i \in 1..Len(lookup.entries) :
               \E k \in 1..Len(paramdefs) :
                   /\ paramdefs[k].path = lookup.entries[i].file
                   /\ Converts(paramdefs[k])
        /\ lookup.entries =
               EntriesOver(lookup.fn, SelectSeq(paramdefs, Converts), lookup.scoring,
                           OrdersOfConverting(paramdefs, lookup.orders))

\* get_definition_path_difflib returned an entry of the second file after the
\* conversion of the first file failed
C13_Witness ==
    /\ lookup.fn = "get_definition_path_difflib"
    /\ Len(paramdefs) = 2
    /\ ~Converts(paramdefs[1])
    /\ Converts(paramdefs[2])
    /\ lookup.calls = PathsOf(paramdefs)
    /\ Len(lookup.entries) > 0
    /\ lookup.entries[1].file = paramdefs[2].path

(***************************************************************************)
(* C14: the path to a collected key                                        *)
(***************************************************************************)
RECURSIVE ValidChain(_, _)
\* path is a chain of nested object keys of data, in the keys' own casing
ValidChain(data, path) ==
    /\ Len(path) > 0
    /\ data.j = "dict"
    /\ path[1] \in KeySet(data.v)
    /\ Len(path) > 1 => ValidChain(DictGet(data.v, path[1]), Tail(path))

\* find_path was applied to a collected key
PathSearched == phase = "converted" /\ Len(path_found) > 0

\* C14 as claimed: for every key k that get_keys collects, find_path returns
\* a non-empty path, a valid chain of nested keys of D from the module name,
\* in the casing of D, whose last element is k itself.
C14_PathEndsAtKey ==
    PathSearched =>
        /\ Len(path_found[1]) = 1
        /\ LET path == path_found[1][1]
           IN  /\ ValidChain(json_compact[1], path)
               /\ path[1] = module.name
               /\ Last(path) = search_key

\* C14 amended: for every key k that get_keys collects, find_path returns a
\* non-empty path, a valid chain of nested keys of D from the module name, in
\* the casing of D, whose last element equals k when letter case is ignored:
\* it is the first such key of the depth-first walk, and k itself when no
\* key of D differs from k in case only.
C14_PathEndsAtKeyIgnoringCase ==
    PathSearched =>
        /\ Len(path_found[1]) = 1
        /\ LET path == path_found[1][1]
               keys == get_keys(json_compact[1])
           IN  /\ ValidChain(json_compact[1], path)
               /\ path[1] = module.name
               /\ Lower(Last(path)) = Lower(search_key)
               /\ (\A k \in keys : Lower(k) = Lower(search_key) => k = search_key)
                      => Last(path) = search_key

\* the path to the collected key "sub" was asked for in an object that holds
\* the key "Sub" before it, and ends at "Sub"
C14_Witness ==
    /\ PathSearched
    /\ search_key = "sub"
    /\ path_found[1] = <<<<"Mod", "Top", "Sub">>>>
    /\ DictKeys(DictGet(DictGet(json_compact[1].v, "Mod").v, "Top").v) = <<"Sub", "sub">>

(***************************************************************************)
(* C15: the compact tree form                                              *)
(***************************************************************************)
\* the lines of a rendered text
LinesOf(text) == Split(text, "\n")

IsParameterLine(line) == Contains(line, PARAM_MARK)

IsReferenceLine(line) == Contains(line, REF_MARK)

\* C15 as claimed: the compact tree form is the module header line, the
\* description line and then lines of containers only; none of its lines is a
\* parameter line or a reference line, whatever the containers hold.
C15_ContainersOnly ==
    Len(tree_simple) > 0 =>
        LET lines == LinesOf(tree_simple[1])
        IN  /\ lines[1] = module.name \o " [MODULE]"
            /\ lines[2] = LAST_NOTE \o module.description
            /\ \A i \in 1..Len(lines) :
                   ~IsParameterLine(lines[i]) /\ ~IsReferenceLine(lines[i])

(***************************************************************************)
(* C16: nothing outlives an operation                                      *)
(***************************************************************************)
\* the outcome of parsing the document alone: a parser of its own, nothing
\* run before and nothing run since
ParsedAlone(document) == parse_arxml_file(ParserNs, document)

\* what the operation gives for the Module
Produced(op, mod) ==
    CASE op = "generate_simple_tree" -> generate_simple_tree(mod)
      [] op = "generate_detailed_tree" -> generate_detailed_tree(mod)
      [] op = "generate_json" -> generate_json(mod)
      [] op = "generate_json_descriptive" -> generate_json_descriptive(mod)

RECURSIVE ReachedFrom(_, _)
\* the objects a reader reaches from the object
ReachedFrom(h, a) ==
    LET o == h[a]
        Below(list) == {list} \cup UNION {ReachedFrom(h, h[list].items[i]) :
                                             i \in 1..Len(h[list].items)}
    IN  {a} \cup
        CASE o.cls = "Parameter" -> {o.literals}
          [] o.cls = "Reference" -> {o.destinations}
          [] o.cls = "Container" ->
                 {o.config_classes} \cup Below(o.parameters) \cup Below(o.references)
                 \cup Below(o.sub_containers)
          [] o.cls = "Module" -> Below(o.containers)
          [] o.cls = "SimpleARXMLParser" -> {o.ns}
          [] OTHER -> {}

\* every call the caller holds is, as the caller finds it now, what the same
\* operation gives for the same document alone: the parser's namespace table
\* is the one it was constructed with; a parse raised what it raises alone or
\* its Module, read now, is the Module parsed alone; a tree or a projection
\* is the one of the Module parsed alone and the one of the Module read now
AsAlone ==
    /\ heap[heap[held[1].at].ns].items = <<<<"ar", AR_NS>>>>
    /\ \A i \in 2..Len(held) :
           LET call == held[i]
               alone == ParsedAlone(call.document)
           IN  IF call.op = "parse_arxml_file"
               THEN /\ call.raised = alone.raised
                    /\ call.exc = alone.exc
                    /\ ~call.raised => ObjectAt(heap, call.at) = alone.module
               ELSE /\ call.result = <<Produced(call.op, alone.module)>>
                    /\ call.result = <<Produced(call.op, ObjectAt(heap, call.at))>>

\* two Modules held share no object, and no Module shares one with the parser
NothingShared ==
    \A i \in ModulesHeld :
        /\ ReachedFrom(heap, held[i].at) \cap ReachedFrom(heap, held[1].at) = {}
        /\ \A j \in ModulesHeld \ {i} :
               ReachedFrom(heap, held[i].at) \cap ReachedFrom(heap, held[j].at) = {}

\* the step changed no object that existed before it and nothing the caller
\* held before it
NothingChanged ==
    /\ \A a \in DOMAIN heap : a \in DOMAIN heap' /\ heap'[a] = heap[a]
    /\ SubSeq(held', 1, Len(held)) = held

\* C16: in every session of one parser object, with parses of several files
\* and renderings and projections of any of the Modules in any order, no
\* operation changes an object that existed before it (the namespace table of
\* the parser, a Module, anything a Module refers to), no two Modules and no
\* Module and the parser share an object, and whatever the caller holds (the
\* Module or the failure of a parse, a tree of either verbosity, either
\* projection) is at every later moment what the same operation produces for
\* the same document alone, with a parser of its own and nothing run before.
C16_NothingOutlives ==
    /\ []AsAlone
    /\ []NothingShared
    /\ [][NothingChanged]_vars

\* a Module was rendered, a second file with another document was parsed by
\* the same parser and its Module projected, and then the first Module was
\* rendered again, with the result of the first time
C16_Witness ==
    \E a, b \in ModulesHeld : \E r1, r2, r3 \in DOMAIN held :
        /\ a < r1 /\ r1 < b /\ b < r2 /\ r2 < r3
        /\ held[a].document # held[b].document
        /\ held[r1].op = "generate_detailed_tree" /\ held[r1].at = held[a].at
        /\ held[r2].op = "generate_json" /\ held[r2].at = held[b].at
        /\ held[r3].op = "generate_detailed_tree" /\ held[r3].at = held[a].at
        /\ held[r3].result = held[r1].result
        /\ held[r3].result # <<Produced("generate_detailed_tree",
                                        ObjectAt(heap, held[b].at))>>

(***************************************************************************)
(* C17: the order of a container's children                                *)
(***************************************************************************)
\* the short names of the element's children of one group, in document order
GroupNames(elem, local) == ElemNameSeq(GroupingChildren(elem, local))

\* the element's child containers: those of SUB-CONTAINERS, then of CHOICES
NestedElems(elem) ==
    GroupingChildren(elem, "SUB-CONTAINERS") \o GroupingChildren(elem, "CHOICES")

RECURSIVE ParsedInOrder(_, _)
\* the container, and every container below it, holds the parameters, the
\* references and the sub-containers followed by the choice containers, each
\* in the document order of its group
ParsedInOrder(elem, container) ==
    /\ NameSeq(container.parameters) = GroupNames(elem, "PARAMETERS")
    /\ NameSeq(container.references) = GroupNames(elem, "REFERENCES")
    /\ NameSeq(container.sub_containers) = ElemNameSeq(NestedElems(elem))
    /\ \A i \in 1..Len(container.sub_containers) :
           ParsedInOrder(NestedElems(elem)[i], container.sub_containers[i])

RECURSIVE Concat(_)
Concat(seqs) == IF Len(seqs) = 0 THEN <<>> ELSE Head(seqs) \o Concat(Tail(seqs))

RECURSIVE EmissionOrder(_)
\* the names below and including a container element in the order of
\* emission: the container, its parameters, its references, then each
\* sub-container and each choice container with what is below it
EmissionOrder(elem) ==
    <<Strip(ShortNameOf(elem))>>
    \o GroupNames(elem, "PARAMETERS")
    \o GroupNames(elem, "REFERENCES")
    \o Concat([i \in 1..Len(NestedElems(elem)) |-> EmissionOrder(NestedElems(elem)[i])])

\* the name a tree line shows before its kind tag
LabelOf(line) ==
    LET head == Head(Split(line, " ["))
        branch == Last(Split(head, "-- "))
    IN  Last(Split(Last(Split(branch, PARAM_MARK)), REF_MARK))

\* the names of the lines that carry a kind tag, from the top
TreeLabels(text) ==
    LET tagged == SelectSeq(LinesOf(text), LAMBDA line : Contains(line, " ["))
    IN  [i \in 1..Len(tagged) |-> LabelOf(tagged[i])]

RECURSIVE CompactInOrder(_, _)
\* the keys of the container's object are the names of its parameters, then
\* of its sub-containers, then of its choice containers, each once; and so
\* below it
CompactInOrder(elem, json) ==
    /\ DictKeys(json.v) =
           FirstSeen(GroupNames(elem, "PARAMETERS") \o ElemNameSeq(NestedElems(elem)))
    /\ \A i \in 1..Len(NestedElems(elem)) :
           (\A k \in (i + 1)..Len(NestedElems(elem)) :
                ElemNameSeq(NestedElems(elem))[k] # ElemNameSeq(NestedElems(elem))[i])
           => CompactInOrder(NestedElems(elem)[i],
                             DictGet(json.v, ElemNameSeq(NestedElems(elem))[i]))

\* the "name" entries of an array of a descriptive container object
DescriptiveNames(json, key) ==
    LET items == DictGet(json.v, key).v
    IN  [i \in 1..Len(items) |-> DictGet(items[i].v, "name").v]

RECURSIVE DescriptiveInOrder(_, _)
DescriptiveInOrder(elem, json) ==
    /\ DescriptiveNames(json, "parameters") = GroupNames(elem, "PARAMETERS")
    /\ DescriptiveNames(json, "references") = GroupNames(elem, "REFERENCES")
    /\ DescriptiveNames(json, "sub_containers") = ElemNameSeq(NestedElems(elem))
    /\ \A i \in 1..Len(NestedElems(elem)) :
           DescriptiveInOrder(NestedElems(elem)[i],
                              DictGet(json.v, "sub_containers").v[i])

\* C17: whatever the order of the four groups in the document, every
\* container of the Module holds its parameters, its references, and its
\* sub-containers followed by its choice containers, each in document order
\* within the group; both trees show the children of every container in the
\* order parameters, references, sub-containers, choice containers; the
\* compact projection has the keys of the parameters before those of the
\* sub-containers before those of the choice containers; and the descriptive
\* projection has the three arrays in the same orders.
C17_ChildOrder ==
    (phase = "parsed" /\ Len(module.containers) = 1) =>
        /\ ParsedInOrder(TopElem, module.containers[1])
        /\ Len(tree_simple) > 0 =>
               TreeLabels(tree_simple[1]) = <<module.name>> \o EmissionOrder(TopElem)
        /\ Len(tree_detailed) > 0 =>
               TreeLabels(tree_detailed[1]) = <<module.name>> \o EmissionOrder(TopElem)
        /\ Len(json_compact) > 0 =>
               CompactInOrder(TopElem, DictGet(json_compact[1].v[1][2].v,
                                               module.containers[1].name))
        /\ Len(json_descriptive) > 0 =>
               DescriptiveInOrder(TopElem, DictGet(json_descriptive[1].v, "containers").v[1])

\* a container whose document has CHOICES first and PARAMETERS last, with
\* two parameters, a reference, the sub-container that has children of its
\* own, and a choice container, was parsed, rendered and projected
C17_Witness ==
    /\ phase = "parsed"
    /\ Len(module.containers) = 1
    /\ Len(TopElem.kids) = 5
    /\ HasTag(TopElem.kids[2], "CHOICES")
    /\ HasTag(TopElem.kids[5], "PARAMETERS")
    /\ GroupNames(TopElem, "PARAMETERS") = <<"Mode", "Size">>
    /\ NameSeq(module.containers[1].references) = <<"PduRef">>
    /\ NameSeq(module.containers[1].sub_containers) = <<"Inner", "Alt">>
    /\ NameSeq(module.containers[1].sub_containers[1].sub_containers) = <<"Nest", "Deep">>
    /\ Len(tree_simple) > 0
    /\ Len(tree_detailed) > 0
    /\ Len(json_compact) > 0
    /\ Len(json_descriptive) > 0
    /\ TreeLabels(tree_simple[1]) =
           <<"Mod", "Top", "Mode", "Size", "PduRef", "Inner", "On", "Nest", "Deep",
             "Alt", "AltSub">>

(***************************************************************************)
(* C18: the kind of a container                                            *)
(***************************************************************************)
RECURSIVE KindsByReach(_, _)
\* below the container, every container taken from the SUB-CONTAINERS group
\* of its element is a SUB_CONTAINER and every one taken from the CHOICES
\* group a CHOICE_CONTAINER, at every depth
KindsByReach(elem, container) ==
    LET subs == GroupingChildren(elem, "SUB-CONTAINERS")
        choices == GroupingChildren(elem, "CHOICES")
    IN  /\ Len(container.sub_containers) = Len(subs) + Len(choices)
        /\ \A i \in 1..Len(subs) :
               /\ container.sub_containers[i].container_type = "SUB_CONTAINER"
               /\ KindsByReach(subs[i], container.sub_containers[i])
        /\ \A i \in 1..Len(choices) :
               /\ container.sub_containers[Len(subs) + i].container_type = "CHOICE_CONTAINER"
               /\ KindsByReach(choices[i], container.sub_containers[Len(subs) + i])

RECURSIVE NestedKinds(_)
\* the kinds of the containers below a container
NestedKinds(container) ==
    UNION { {container.sub_containers[i].container_type}
            \cup NestedKinds(container.sub_containers[i]) :
                i \in 1..Len(container.sub_containers) }

\* C18: in every Module the parser returns, each container of
\* Module.containers has kind CONTAINER; below it, each container read from
\* a SUB-CONTAINERS group has kind SUB_CONTAINER and each container read from
\* a CHOICES group has kind CHOICE_CONTAINER, at every depth and whatever the
\* tag of its element; no nested container has kind CONTAINER.
C18_KindByReach ==
    (phase = "parsed" /\ Len(module.containers) = 1) =>
        /\ \A i \in 1..Len(module.containers) :
               /\ module.containers[i].container_type = "CONTAINER"
               /\ "CONTAINER" \notin NestedKinds(module.containers[i])
        /\ KindsByReach(TopElem, module.containers[1])

\* a Module was returned for a container whose SUB-CONTAINERS group holds an
\* element with the tag of a choice container and whose CHOICES group holds
\* an element with the tag of a plain container that has a sub-container
C18_Witness ==
    /\ phase = "parsed"
    /\ Len(module.containers) = 1
    /\ LET subs == GroupingChildren(TopElem, "SUB-CONTAINERS")
           choices == GroupingChildren(TopElem, "CHOICES")
       IN  /\ Len(subs) = 1 /\ HasTag(subs[1], "ECUC-CHOICE-CONTAINER-DEF")
           /\ Len(choices) = 1 /\ HasTag(choices[1], "ECUC-PARAM-CONF-CONTAINER-DEF")
    /\ module.containers[1].sub_containers[1].container_type = "SUB_CONTAINER"
    /\ module.containers[1].sub_containers[2].container_type = "CHOICE_CONTAINER"
    /\ NestedKinds(module.containers[1].sub_containers[2]) = {"SUB_CONTAINER"}

(***************************************************************************)
(* C19: the literals of a parameter                                        *)
(***************************************************************************)
\* C19 as claimed: in every Module the parser returns, a Parameter whose kind
\* is not ENUMERATION has no literals, whatever children its element has, and
\* its object in the compact projection has no "options" key.
C19_LiteralsOnlyForEnumerations ==
    (phase = "parsed" /\ Len(module.containers) = 1) =>
        \A i \in 1..Len(module.containers[1].parameters) :
            LET param == module.containers[1].parameters[i]
            IN  param.param_type # "ENUMERATION" =>
                    /\ param.literals = <<>>
                    /\ Len(json_compact) > 0 =>
                           LET top == DictGet(json_compact[1].v[1][2].v,
                                              module.containers[1].name)
                           IN  "options" \notin KeySet(DictGet(top.v, param.name).v)

(***************************************************************************)
(* C20: names that collide in the compact projection                       *)
(***************************************************************************)
\* the object has the key once
HasKeyOnce(json, n) == Cardinality({i \in 1..Len(json.v) : json.v[i][1] = n}) = 1

RECURSIVE LastContainerKept(_, _)
\* every name of the containers is one key of the object, and its value is
\* the projection of the last container of that name, a parameter of the
\* name or not; and so for the sub-containers of that container
LastContainerKept(containers, json) ==
    \A n \in NameSet(containers) :
        LET last == LastNamed(containers, n)
        IN  /\ HasKeyOnce(json, n)
            /\ DictGet(json.v, n) = _container_to_json(last)
            /\ LastContainerKept(last.sub_containers, DictGet(json.v, n))

\* C20: in every compact projection, a name shared by a parameter and a
\* sub-container of one container is a single key of the container's object
\* and its value is the projection of the sub-container; among several
\* sub-containers of one name, and among several top-level containers of one
\* name, the key holds the projection of the last one in sequence order.
C20_LaterOverwrites ==
    Len(json_compact) > 0 =>
        LastContainerKept(module.containers, json_compact[1].v[1][2])

\* the compact projection was produced for a container with a parameter and
\* a sub-container both named Flag, and with a sub-container and a later
\* choice container both named Sub that hold different children
C20_Witness ==
    /\ Len(json_compact) > 0
    /\ Len(module.containers) = 1
    /\ "Flag" \in NameSet(module.containers[1].parameters)
    /\ NameSeq(module.containers[1].sub_containers) = <<"Flag", "Sub", "Sub">>
    /\ NameSet(module.containers[1].sub_containers[2].parameters) = {"Leaf"}
    /\ LET top == DictGet(json_compact[1].v[1][2].v, "Top")
       IN  /\ KeySet(top.v) = {"Flag", "Sub"}
           /\ KeySet(DictGet(top.v, "Flag").v) = {"Deep"}
           /\ KeySet(DictGet(top.v, "Sub").v) = {"Gain"}

(***************************************************************************)
(* C21: the glyph of the last child                                        *)
(***************************************************************************)
StartsWith(s, p) == Len(s) >= Len(p) /\ SubSeq(s, 1, Len(p)) = p

\* the four characters of the line after its first n
BranchAt(line, n) == IF Len(line) >= n + 4 THEN SubSeq(line, n + 1, n + 4) ELSE ""

\* the positions of the container lines of a tree: the lines with a kind tag
\* that are neither the module line nor a parameter or reference line
ContainerLineIndexes(lines) ==
    SelectSeq([i \in 1..Len(lines) |-> i],
              LAMBDA i : /\ i > 1
                         /\ Contains(lines[i], " [")
                         /\ ~IsParameterLine(lines[i])
                         /\ ~IsReferenceLine(lines[i]))

\* the prefix under which the children of the container of line i are drawn
ChildPrefix(lines, i) ==
    LET at == Min(Occurrences(lines[i], "-- ")) - 2
    IN  SubSeq(lines[i], 1, at)
        \o (IF BranchAt(lines[i], at) = LAST_BRANCH THEN "    " ELSE RULE)

\* the glyphs, from the top, of the direct children of the container of line
\* i: of the lines that follow it under its child prefix, those that have a
\* branch glyph right after the prefix
ChildGlyphs(lines, i) ==
    LET np == ChildPrefix(lines, i)
        below == SelectSeq([k \in 1..Len(lines) |-> k],
                     LAMBDA k : /\ k > i
                                /\ \A m \in (i + 1)..k : StartsWith(lines[m], np)
                                /\ BranchAt(lines[k], Len(np)) \in {LAST_BRANCH, MID_BRANCH})
    IN  [k \in 1..Len(below) |-> BranchAt(lines[below[k]], Len(np))]

\* n children drawn with the continuing glyph but the last, drawn terminal
ContinuingThenTerminal(n) == [k \in 1..n |-> IF k = n THEN LAST_BRANCH ELSE MID_BRANCH]

RECURSIVE ContainersInTreeOrder(_)
\* the containers in the order of their lines: each before those below it
ContainersInTreeOrder(containers) ==
    IF Len(containers) = 0 THEN <<>>
    ELSE <<Head(containers)>>
         \o ContainersInTreeOrder(Head(containers).sub_containers)
         \o ContainersInTreeOrder(Tail(containers))

DirectChildren(container) ==
    Len(container.parameters) + Len(container.references) + Len(container.sub_containers)

\* every container of the tree has one child line per direct child, the last
\* of them terminal and the others continuing
LastChildTerminal(text) ==
    LET lines == LinesOf(text)
        at == ContainerLineIndexes(lines)
        containers == ContainersInTreeOrder(module.containers)
    IN  /\ Len(at) = Len(containers)
        /\ \A k \in 1..Len(at) :
               ChildGlyphs(lines, at[k]) = ContinuingThenTerminal(DirectChildren(containers[k]))

\* C21: in the compact and in the detailed tree, every container has one
\* child line for each of its parameters, references and child containers;
\* the last of these lines in emission order has the terminal glyph and every
\* other one the continuing glyph, so the last parameter is continuing when a
\* reference or a child container follows it.
C21_OneTerminalChild ==
    /\ Len(tree_simple) > 0 => LastChildTerminal(tree_simple[1])
    /\ Len(tree_detailed) > 0 => LastChildTerminal(tree_detailed[1])

\* both trees were rendered for a container with two parameters, a reference
\* and two child containers, one of which has three children of its own: its
\* last parameter line is continuing and its last container line terminal
C21_Witness ==
    /\ Len(tree_simple) > 0
    /\ Len(tree_detailed) > 0
    /\ Len(module.containers) = 1
    /\ Len(module.containers[1].parameters) = 2
    /\ Len(module.containers[1].references) = 1
    /\ NameSeq(module.containers[1].sub_containers) = <<"Inner", "Alt">>
    /\ LET lines == LinesOf(tree_detailed[1])
           at == ContainerLineIndexes(lines)
       IN  /\ Len(at) = 6
           /\ ChildGlyphs(lines, at[1]) =
                  <<MID_BRANCH, MID_BRANCH, MID_BRANCH, MID_BRANCH, LAST_BRANCH>>
           /\ ChildGlyphs(lines, at[2]) = <<MID_BRANCH, MID_BRANCH, LAST_BRANCH>>

(***************************************************************************)
(* C23: the chain configure builds                                         *)
(***************************************************************************)
RECURSIVE IsChain(_, _, _)
\* items holds one node, keyed by the name of the first part; the node's
\* object has "type" equal to the part and, when parts follow, exactly one
\* further key, which holds the chain of the parts that follow
IsChain(items, parts, names) ==
    /\ Len(items) = 1
    /\ items[1][1] = (IF parts[1] \in KeySet(names) THEN DictGet(names, parts[1])
                      ELSE parts[1])
    /\ LET node == items[1][2]
       IN  /\ node.j = "dict"
           /\ "type" \in KeySet(node.v)
           /\ DictGet(node.v, "type") = JStr(parts[1])
           /\ LET further == SelectSeq(node.v, LAMBDA it : it[1] # "type")
              IN  IF Len(parts) = 1 THEN further = <<>>
                  ELSE IsChain(further, Tail(parts), names)

\* C23 as claimed: for every path and names mapping, configure returns
\* {"ecuc": T1} with T1 the single chain of the path's non-empty segments in
\* path order, each node keyed by its name, holding "type" equal to its
\* segment and, but for the last, exactly one further key for the next node;
\* and the empty object when the path has no non-empty segment.
C23_SingleChain ==
    Len(config) > 0 =>
        LET parts == PathParts(request.path)
        IN  IF Len(parts) = 0 THEN config[1] = JDict(<<>>)
            ELSE /\ DictKeys(config[1].v) = <<"ecuc">>
                 /\ config[1].v[1][2].j = "dict"
                 /\ IsChain(config[1].v[1][2].v, parts, request.names)

(***************************************************************************)
(* C22: what ecuc_config.json holds after several calls                    *)
(***************************************************************************)
RECURSIVE MergedInOrder(_)
\* the configs deep-merged from left to right, the first one taken alone
MergedInOrder(configs) ==
    IF Len(configs) = 1 THEN configs[1]
    ELSE _deep_merge(MergedInOrder(SubSeq(configs, 1, Len(configs) - 1)),
                     configs[Len(configs)])

RECURSIVE KeyPaths(_)
\* the key paths of a JSON value: every chain of keys from its top
KeyPaths(json) ==
    IF json.j # "dict" THEN {}
    ELSE UNION { {<<json.v[i][1]>>}
                 \cup {<<json.v[i][1]>> \o rest : rest \in KeyPaths(json.v[i][2])} :
                     i \in 1..Len(json.v) }

\* C22 as claimed: after any sequence of calls of create_ecuc_configuration,
\* each run to completion and the first finding no file, the file holds the
\* left-to-right deep merge of the configs in call order, and every key path
\* of every config written so far is a key path of the file: no later call
\* loses what an earlier one wrote.
C22_NoKeyPathLost ==
    Len(saved) > 0 =>
        /\ Len(ecuc_file) = 1
        /\ ecuc_file[1].readable
        /\ ecuc_file[1].data = MergedInOrder(saved)
        /\ \A i \in 1..Len(saved) : KeyPaths(saved[i]) \subseteq KeyPaths(ecuc_file[1].data)

(***************************************************************************)
(* C24: mcp_util.get_definition                                            *)
(***************************************************************************)
\* the data has the keyword as a key at some depth, letter case ignored
HasKeyIgnoringCase(data, key) == \E k \in get_keys(data) : Lower(k) = Lower(key)

\* the files that load and hold the keyword, in the order of the files
FilesWithKey(files, key) ==
    SelectSeq(files, LAMBDA f : f.loads /\ HasKeyIgnoringCase(f.data, key))

\* C24 as claimed: get_definition goes through the files in order, skips
\* every file that does not load, and returns for the first file whose data
\* has the keyword as a key at any depth, letter case ignored, the path of
\* that file when return_path is true and its data otherwise; it returns
\* None when no file has the key or there is no file.
C24_FirstFileWithKey ==
    util.outcome # "" =>
        LET hits == FilesWithKey(util.files, util.keyword)
        IN  /\ util.outcome = "returned"
            /\ util.value = IF Len(hits) = 0 THEN <<>>
                            ELSE IF util.return_path THEN <<JStr(hits[1].path)>>
                            ELSE <<hits[1].data>>

(***************************************************************************)
(* C25: the tool get_precise_time                                          *)
(***************************************************************************)
\* C25 as claimed: every call of the tool get_precise_time ends by returning
\* the time mcp_util.get_precise_time gave, and the wrapper delegates once:
\* it never has more than one frame on the stack.
C25_ReturnsTheTime ==
    /\ [](frames <= 1)
    /\ (frames > 0) ~> (tool_result = "datetime")
====
